---- MODULE Spec2Model ----
(***************************************************************************)
(* Agent execution state machine of BaseThinkingAgent                      *)
(* (agents/base_thinking_agent.py) with its reflection sub-loop            *)
(* (reflection/base_reflection.py).  One agent instance is modelled; the   *)
(* runtime, the model client and the tools are the environment: they       *)
(* deliver messages, return model results and decide tool outcomes.        *)
(* A handler is split at its suspension points (model calls, tool calls).  *)
(***************************************************************************)
EXTENDS Integers, Sequences, FiniteSets, TLC

\* ------------------------------------------------------------------ bounds
\* One run is bounded by the work it does: every message delivery, every
\* function call of a main-cycle batch, every call after the first of a
\* reflection batch and every reflection turn that calls get_thought costs 1.
MaxWork == 3

\* --------------------------------------------------------------- constants
SelfType == "Triage"                      \* self.id.type
ThinkingPrompt == "THINK"                 \* BaseReflection._thinking_prompt
SenderTopics == {"User", "Peer"}          \* sender_topic_type of a task
TaskText(s) == IF s = "User" THEN "t1" ELSE "t2"   \* what a sender asks
ModelTexts == {"answer"}                  \* plain text the model returns
ToolNames == {"search", "bogus"}          \* names the model may call
ArgStrings == {"{}", "{"}                 \* call.arguments: an object, malformed
ThoughtArgs == {"{}", "{", "{thought:p1}"}   \* arguments of reflection calls
ToolOutcomes == {"ok", "raise", "cancel"} \* what awaiting run_json produces

\* ------------------------------------------------------------ chat entries
NoText == <<>>

UserMessage(text, source) ==
    [type |-> "UserMessage", source |-> source, kind |-> "text",
     text |-> text, calls |-> <<>>, results |-> <<>>]

AssistantText(text, source) ==
    [type |-> "AssistantMessage", source |-> source, kind |-> "text",
     text |-> text, calls |-> <<>>, results |-> <<>>]

AssistantCalls(calls, source) ==
    [type |-> "AssistantMessage", source |-> source, kind |-> "calls",
     text |-> NoText, calls |-> calls, results |-> <<>>]

FunctionExecutionResultMessage(results) ==
    [type |-> "FunctionExecutionResultMessage", source |-> "", kind |-> "results",
     text |-> NoText, calls |-> <<>>, results |-> results]

FunctionExecutionResult(name, content, call_id, is_error) ==
    [name |-> name, content |-> content, call_id |-> call_id, is_error |-> is_error]

FunctionCall(id, name, arguments) ==
    [id |-> id, name |-> name, arguments |-> arguments]

\* json.loads on the argument strings the model can produce
JsonLoads(s) ==
    CASE s = "{}"           -> [ok |-> TRUE,  keys |-> {},          thought |-> ""]
      [] s = "{thought:p1}" -> [ok |-> TRUE,  keys |-> {"thought"}, thought |-> "p1"]
      [] OTHER              -> [ok |-> FALSE, keys |-> {},          thought |-> ""]

\* ------------------------------------------------------------------- state
VARIABLES
    tools,                \* self._tools: names of the local tools
    communication_tools,  \* self._communication_tools: [resolved, names]
    broadcast_topic,      \* self._broadcast_topic ("" is None)
    system_message,       \* self._system_message.content, as appended parts
    chat_history,         \* self._chat_history
    sender_agent_topic,   \* self._sender_agent_topic
    thought,              \* self._reflection._thought
    num_tool_calls,       \* self._num_tool_calls
    pc,                   \* where the running handler is suspended
    task,                 \* handler in progress: "none", "user", "agent"
    in_loop,              \* TRUE once handle_function_calls has been entered
    context,              \* the list the reflection pass works on
    llm_result,           \* the batch being resolved by handle_function_calls
    idx,                  \* position of the next call of the batch
    tool_results,         \* tool_results of the batch being resolved
    published,            \* messages handed to publish_message, in order
    trace,                \* collaborator calls of the current handler, in order
    outcome,              \* how the last finished handler ended
    delivered,            \* messages the runtime has delivered, in order
    work                  \* the work done so far in this run

agent_vars == <<tools, communication_tools, broadcast_topic, system_message,
                chat_history, sender_agent_topic, thought, num_tool_calls, pc,
                task, in_loop, context, llm_result, idx, tool_results,
                published, trace, outcome, delivered, work>>

\* the topic router (messaging/messaging.py, main.py)
VARIABLES
    agents,               \* the agents dict of main(): agent types, in order
    broadcast_topic_type, \* the broadcast_topic_type argument
    subscriptions,        \* the runtime's subscriptions, in add order
    setup_pc,             \* position in setup_messaging_topics
    setup_i,              \* index of the loop in progress
    routed                \* publishes after setup: [topic, recipients]

topic_vars == <<agents, broadcast_topic_type, subscriptions, setup_pc, setup_i,
                routed>>

\* the evaluation service (eval/services/evaluation_service.py, eval/main.py)
VARIABLES
    trace_df,                \* the span table of the run in progress
    current_evaluation_id,   \* self.current_evaluation_id (0 is None)
    agent_trajectories_dict, \* self.agent_trajectories_dict
    evaluations,             \* committed Evaluation rows: [trace_id, status]
    db_rows,                 \* committed Agent/AgentTrace/AgentStep/ToolUsefulness rows
    session,                 \* rows added to the run's session, not committed
    run_pc,                  \* position of run_evaluation
    responses                \* what POST /run_evaluations answered, in order

eval_vars == <<trace_df, current_evaluation_id, agent_trajectories_dict,
               evaluations, db_rows, session, run_pc, responses>>

\* chat-to-steps parsing (eval/utils/chat_utils.py)
VARIABLES
    chat,                 \* the transcript given to parse_chat_n
    n_previous,           \* the window size argument
    steps,                \* the list parse_chat_n returns
    parse_pc,             \* "start" before the call, "done" after
    tool_call_counts,     \* len(tool_calls) of the message at each position
    step_scores           \* step["step_score"] of each step, in order

chat_vars == <<chat, n_previous, steps, parse_pc, tool_call_counts,
               step_scores>>

\* stepwise score calibration (eval/metrics/agent_step_metrics.py)
VARIABLES
    raw_score,            \* a raw rubric score
    conf_lo,              \* a confidence
    conf_hi,              \* a confidence not below conf_lo
    cal_lo,               \* calibrate(raw_score, conf_lo)
    cal_hi,               \* calibrate(raw_score, conf_hi)
    score_data,           \* step["step_score"]: the dimensions in order
    step_score_aggregated,\* step["step_score_aggregated"]
    step_quality,         \* step["step_quality"]
    metric_pc             \* "start", "calibrated", "classified"

metric_vars == <<raw_score, conf_lo, conf_hi, cal_lo, cal_hi, score_data,
                 step_score_aggregated, step_quality, metric_pc>>

\* tool entropy (eval/metrics/tool_metrics.py)
VARIABLES
    all_tool_sequence_full, \* the agent's calls in order: [tool_name, input_val, output_val]
    entropy_tool,           \* the tool whose entropy is computed
    tool_entropy,           \* metrics["tools_invoked"][tool]["tool_entropy"]
    entropy_pc              \* "start" before the call, "done" after

entropy_vars == <<all_tool_sequence_full, entropy_tool, tool_entropy, entropy_pc>>

\* note tool (tools/note_tool.py)
VARIABLES
    sections,     \* NoteTool.sections in insertion order: [name, content, subsections]
    note_result,  \* the last call and what it returned
    written,      \* the writes that returned success, in order: [section_name, text]
    markdown,     \* what read_all_notes returned
    note_calls,   \* create_note_section and write_notes calls made
    note_pc       \* "open" while the note is written, "read" after read_all_notes

notes_vars == <<sections, note_result, written, markdown, note_calls, note_pc>>

\* a second agent instance on the same runtime (main.py, lines 46-53)
VARIABLES
    other_agent,          \* the fields of the other BaseThinkingAgent instance
    other_steps,          \* handler steps the other instance has taken
    interleaved           \* those taken while this agent was suspended

other_vars == <<other_agent, other_steps, interleaved>>

\* @components
vars == <<agent_vars, topic_vars, eval_vars, chat_vars, metric_vars,
          entropy_vars, notes_vars, other_vars>>

\* what the steps of one component leave alone: the other components
not_agent == <<topic_vars, eval_vars, chat_vars, metric_vars, entropy_vars,
               notes_vars, other_vars>>
not_topics == <<agent_vars, eval_vars, chat_vars, metric_vars, entropy_vars,
                notes_vars, other_vars>>
not_eval == <<agent_vars, topic_vars, chat_vars, metric_vars, entropy_vars,
              notes_vars, other_vars>>
not_chat == <<agent_vars, topic_vars, eval_vars, metric_vars, entropy_vars,
              notes_vars, other_vars>>
not_metrics == <<agent_vars, topic_vars, eval_vars, chat_vars, entropy_vars,
                 notes_vars, other_vars>>
not_entropy == <<agent_vars, topic_vars, eval_vars, chat_vars, metric_vars,
                 notes_vars, other_vars>>
not_notes == <<agent_vars, topic_vars, eval_vars, chat_vars, metric_vars,
               entropy_vars, other_vars>>
not_other == <<agent_vars, topic_vars, eval_vars, chat_vars, metric_vars,
               entropy_vars, notes_vars>>

\* a component that takes no part in a specification rests in one state
TopicsAtRest ==
    /\ agents = <<>>
    /\ broadcast_topic_type = ""
    /\ subscriptions = <<>>
    /\ setup_pc = "done"
    /\ setup_i = 0
    /\ routed = <<>>

EvalAtRest ==
    /\ trace_df = <<>>
    /\ current_evaluation_id = 0
    /\ agent_trajectories_dict = {}
    /\ evaluations = <<>>
    /\ db_rows = {}
    /\ session = {}
    /\ run_pc = "idle"
    /\ responses = <<>>

config == <<tools, communication_tools, broadcast_topic>>
locals == <<context, llm_result, idx, tool_results>>

ChatAtRest ==
    /\ chat = <<>>
    /\ n_previous = 0
    /\ steps = <<>>
    /\ parse_pc = "done"
    /\ tool_call_counts = <<>>
    /\ step_scores = <<>>

MetricsAtRest ==
    /\ raw_score = 0
    /\ conf_lo = 0
    /\ conf_hi = 0
    /\ cal_lo = 0
    /\ cal_hi = 0
    /\ score_data = <<>>
    /\ step_score_aggregated = [is_null |-> TRUE, value |-> 0]
    /\ step_quality = ""
    /\ metric_pc = "rest"

EntropyAtRest ==
    /\ all_tool_sequence_full = <<>>
    /\ entropy_tool = ""
    /\ tool_entropy = 0
    /\ entropy_pc = "rest"

NotesAtRest ==
    /\ sections = <<>>
    /\ note_result = [call |-> "", section_name |-> <<>>, status |-> ""]
    /\ written = <<>>
    /\ markdown = <<>>
    /\ note_calls = 0
    /\ note_pc = "rest"

OtherAtRest ==
    /\ other_agent = [chat_history |-> <<>>, sender_agent_topic |-> "", thought |-> "",
                num_tool_calls |-> 0, pc |-> "Idle", task |-> "none",
                in_loop |-> FALSE, context |-> <<>>, llm_result |-> <<>>,
                published |-> <<>>]
    /\ other_steps = 0
    /\ interleaved = 0

\* --------------------------------------------------------------- messages
TaskMessages ==
    { [sender_topic_type |-> s, context |-> <<UserMessage(<<TaskText(s)>>, s)>>] :
        s \in SenderTopics }

BroadCastMessage(sender, ctx, topic) ==
    [kind |-> "BroadCastMessage", sender_topic_type |-> sender,
     context |-> ctx, topic |-> topic]

\* broadcasts the runtime can deliver: the sender is this agent or a peer
BroadcastDeliveries ==
    { [sender_topic_type |-> s, context |-> <<UserMessage(<<TaskText(s)>>, "User")>>] :
        s \in {SelfType, "Peer"} }

AgentResponse(sender, ctx, topic) ==
    [kind |-> "AgentResponse", sender_topic_type |-> sender,
     context |-> ctx, topic |-> topic]

\* batches of n calls the model can return, ids unique within the batch
CallsOver(names, args) ==
    { FunctionCall(0, n, a) : n \in names, a \in args }

BatchesOver(names, args, maxLen) ==
    UNION { { [i \in 1..n |-> [b[i] EXCEPT !.id = i]] :
                b \in [1..n -> CallsOver(names, args)] } : n \in 1..maxLen }

\* the batches the model can return while n more units of work are allowed
MainBatches(n) == BatchesOver(ToolNames, ArgStrings, n)
CreateBatches(n) == BatchesOver({"create_thought"}, ThoughtArgs, n + 1)
GetUpdateBatches(n) ==
    BatchesOver({"get_thought", "update_thought"}, ThoughtArgs, n + 1)

\* a guard that does not test whether there is any communication tool
SetCommunicationTools_EmptyToo(ct) ==
    IF ~ct.resolved
    THEN [resolved |-> TRUE, names |-> ct.names]
    ELSE ct

\* ------------------------------------------------------- tool availability
\* set_communication_tools, guarded as in the two task handlers
SetCommunicationTools(ct) ==
    IF ~ct.resolved /\ ct.names # <<>>
    THEN [resolved |-> TRUE, names |-> ct.names]
    ELSE ct

\* the available_tools expression: iterating the resolved dict yields its
\* keys (strings), and a string has no .schema, so the expression raises
AvailableTools(ct) ==
    IF ct.names # <<>>
    THEN IF ct.resolved
         THEN [raised |-> TRUE,  schemas |-> <<>>]
         ELSE [raised |-> FALSE, schemas |-> tools \o ct.names]
    ELSE [raised |-> FALSE, schemas |-> tools]

InLocalTools(name) == \E i \in 1..Len(tools) : tools[i] = name

\* "call.name in self._communication_tools": key lookup in the resolved dict;
\* against the unresolved list a name equals no Tool object
InCommunicationTools(name) ==
    /\ communication_tools.resolved
    /\ \E i \in 1..Len(communication_tools.names) : communication_tools.names[i] = name

\* ------------------------------------------------ tool invocation resolver
\* a resolver without the try/except around run_json
RunFoundTool_NoExcept(call, o) ==
    IF o = "ok"
    THEN [raised |-> FALSE, event |-> "tool_ok",
          result |-> FunctionExecutionResult(call.name, <<"result", call.name>>,
                                             call.id, FALSE)]
    ELSE [raised |-> TRUE,
          event |-> IF o = "raise" THEN "tool_raised" ELSE "tool_cancelled",
          result |-> FunctionExecutionResult(call.name, <<>>, call.id, TRUE)]

\* one iteration of the loop of handle_function_calls: raised = the exception
\* leaves the handler; otherwise result is the entry appended to tool_results
RunFoundTool(call, o) ==
    CASE o = "ok" ->
           [raised |-> FALSE, event |-> "tool_ok",
            result |-> FunctionExecutionResult(call.name, <<"result", call.name>>,
                                               call.id, FALSE)]
      [] o = "raise" ->
           [raised |-> FALSE, event |-> "tool_raised",
            result |-> FunctionExecutionResult(call.name, <<"boom">>, call.id, TRUE)]
      [] OTHER ->   \* asyncio.CancelledError is not an Exception: not caught
           [raised |-> TRUE, event |-> "tool_cancelled",
            result |-> FunctionExecutionResult(call.name, <<>>, call.id, TRUE)]

ResolveCall(call, o) ==
    IF ~JsonLoads(call.arguments).ok
    THEN [raised |-> TRUE, event |-> "json_error",
          result |-> FunctionExecutionResult(call.name, <<>>, call.id, TRUE)]
    ELSE IF InLocalTools(call.name) THEN RunFoundTool(call, o)
    ELSE IF InCommunicationTools(call.name) THEN RunFoundTool(call, o)
    ELSE [raised |-> FALSE, event |-> "invalid_tool",
          result |-> FunctionExecutionResult(
                        call.name, <<"NameError", call.name, "is not a valid tool">>,
                        call.id, TRUE)]

\* -------------------------------------------------------------- reflection
\* BaseReflection.think, lines 67-73: the instruction goes into the last user
\* entry of the list it was given, or into a new user entry
ThinkPrepare(ctx) ==
    IF ctx[Len(ctx)].type = "UserMessage"
    THEN [ctx EXCEPT ![Len(ctx)].text = @ \o <<ThinkingPrompt>>]
    ELSE Append(ctx, UserMessage(<<ThinkingPrompt>>, SelfType))

\* reflection tools that never store the thought they are given
RunThoughtTool_NeverStores(call, args, th) ==
    [thought |-> th,
     result |-> FunctionExecutionResult(
                   call.name,
                   IF call.name = "get_thought" THEN <<th>>
                   ELSE IF call.name = "create_thought" THEN <<"Thought created">>
                   ELSE <<"Thought updated">>,
                   call.id, FALSE)]

\* run_json of the three reflection tools on parsed arguments
RunThoughtTool(call, args, th) ==
    IF call.name = "get_thought"
    THEN [thought |-> th,
          result |-> FunctionExecutionResult(call.name, <<th>>, call.id, FALSE)]
    ELSE IF "thought" \in args.keys
    THEN [thought |-> args.thought,
          result |-> FunctionExecutionResult(
                        call.name,
                        IF call.name = "create_thought" THEN <<"Thought created">>
                                                        ELSE <<"Thought updated">>,
                        call.id, FALSE)]
    ELSE [thought |-> th,
          result |-> FunctionExecutionResult(call.name, <<"ValidationError">>,
                                             call.id, TRUE)]

\* the "for call in result.content" loop of run_reflection from call i on
RECURSIVE ReflectionLoop(_, _, _, _)
ReflectionLoop(calls, i, th, res) ==
    IF i > Len(calls) THEN [raised |-> FALSE, thought |-> th, results |-> res]
    ELSE IF ~JsonLoads(calls[i].arguments).ok
    THEN [raised |-> TRUE, thought |-> th, results |-> res]
    ELSE LET r == RunThoughtTool(calls[i], JsonLoads(calls[i].arguments), th)
         IN  ReflectionLoop(calls, i + 1, r.thought, Append(res, r.result))

GetThoughtCalled(calls) == \E i \in 1..Len(calls) : calls[i].name = "get_thought"

\* the work a reflection turn costs
ReflectionCost(calls) ==
    (Len(calls) - 1) + (IF GetThoughtCalled(calls) THEN 1 ELSE 0)

\* -------------------------------------------------------------------- Init
\* constructor arguments: an agent with nothing, one with a local tool and a
\* broadcast topic, one with a communication tool and a broadcast topic
AgentConfigs ==
    { [tools |-> <<>>, communication_tools |-> <<>>, broadcast_topic |-> ""],
      [tools |-> <<"search">>, communication_tools |-> <<>>,
       broadcast_topic |-> "BCAST"],
      [tools |-> <<>>, communication_tools |-> <<"delegate">>,
       broadcast_topic |-> "BCAST"] }

\* __init__, lines 49-63, for the ways the agent can be configured
AgentInit ==
    /\ \E c \in AgentConfigs :
          /\ tools = c.tools
          /\ communication_tools = [resolved |-> FALSE, names |-> c.communication_tools]
          /\ broadcast_topic = c.broadcast_topic
    /\ system_message = <<"SYS">>
    /\ chat_history = <<>>
    /\ sender_agent_topic = ""
    /\ thought = ""
    /\ num_tool_calls = 0
    /\ pc = "Idle"
    /\ task = "none"
    /\ in_loop = FALSE
    /\ context = <<>>
    /\ llm_result = <<>>
    /\ idx = 0
    /\ tool_results = <<>>
    /\ published = <<>>
    /\ trace = <<>>
    /\ outcome = "none"
    /\ delivered = <<>>
    /\ work = 0

\* @init
Init == AgentInit /\ TopicsAtRest /\ EvalAtRest /\ ChatAtRest /\ MetricsAtRest /\ EntropyAtRest /\ NotesAtRest /\ OtherAtRest

\* the agent at rest: constructed without tools or topics, nothing delivered
AgentAtRest ==
    /\ AgentInit
    /\ tools = <<>>
    /\ communication_tools = [resolved |-> FALSE, names |-> <<>>]
    /\ broadcast_topic = ""

\* the handler returns (o = "replied", "silent") or an exception leaves it
\* (o = "raised"); the runtime then delivers the next message
HandlerEnds(o) ==
    /\ pc' = "Idle"
    /\ task' = "none"
    /\ in_loop' = FALSE
    /\ outcome' = o
    /\ context' = <<>>
    /\ llm_result' = <<>>
    /\ idx' = 0
    /\ tool_results' = <<>>

\* the available_tools expression followed by the await on the model client
GoToModelCall(ct) ==
    IF AvailableTools(ct).raised
    THEN HandlerEnds("raised")
    ELSE /\ pc' = "AwaitingModel"
         /\ context' = <<>>
         /\ UNCHANGED <<task, in_loop, outcome, llm_result, idx, tool_results>>

\* ----------------------------------------------------------- task handlers
\* an entry of the runtime's delivery log
Delivery(kind, message) ==
    [kind |-> kind, sender_topic_type |-> message.sender_topic_type,
     context |-> message.context]

\* a reply target that is kept once set instead of being overwritten
ReplyTarget_KeepFirst(old, message) ==
    IF old = "" THEN message.sender_topic_type ELSE old

\* "self._sender_agent_topic = message.sender_topic_type" (lines 90 and 168)
ReplyTarget(old, message) == message.sender_topic_type

\* an echo that ignores whether a broadcast topic is configured
BroadcastEcho_Always(message) ==
    <<BroadCastMessage(SelfType, message.context, broadcast_topic)>>

\* lines 97-107: the echo of a UserTask to the broadcast topic, if one is set
BroadcastEcho(message) ==
    IF broadcast_topic # ""
    THEN <<BroadCastMessage(SelfType, message.context, broadcast_topic)>>
    ELSE <<>>

\* a merge that assigns ("=") where the code appends ("+=")
MergeOrExtend_Overwrite(history, message) ==
    IF history # <<>> /\ history[Len(history)].type = "UserMessage"
    THEN [history EXCEPT ![Len(history)].text =
             message.context[Len(message.context)].text]
    ELSE history \o message.context

\* lines 163-166: merge into a trailing user entry, else extend
MergeOrExtend(history, message) ==
    IF history # <<>> /\ history[Len(history)].type = "UserMessage"
    THEN [history EXCEPT ![Len(history)].text =
             @ \o message.context[Len(message.context)].text]
    ELSE history \o message.context

\* a handler that hands the live history to think instead of a deep copy
HandleUserTask_NoDeepCopy(message) ==
    /\ pc = "Idle"
    /\ work < MaxWork
    /\ work' = work + 1
    /\ delivered' = Append(delivered, Delivery("UserTask", message))
    /\ sender_agent_topic' = ReplyTarget(sender_agent_topic, message)
    /\ communication_tools' = SetCommunicationTools(communication_tools)
    /\ published' = published \o BroadcastEcho(message)
    /\ trace' = [i \in 1..Len(BroadcastEcho(message)) |-> "publish_broadcast"]
    /\ chat_history' = ThinkPrepare(chat_history \o message.context)
    /\ context' = chat_history'
    /\ pc' = "Reflecting"
    /\ task' = "user"
    /\ in_loop' = FALSE
    /\ UNCHANGED <<tools, broadcast_topic, system_message, thought, num_tool_calls,
                   llm_result, idx, tool_results, outcome>>
    /\ UNCHANGED not_agent

\* handle_user_task up to the model call of the reflection pass
HandleUserTask(message) ==
    /\ pc = "Idle"
    /\ work < MaxWork
    /\ work' = work + 1
    /\ delivered' = Append(delivered, Delivery("UserTask", message))
    /\ sender_agent_topic' = ReplyTarget(sender_agent_topic, message)
    /\ communication_tools' = SetCommunicationTools(communication_tools)
    /\ published' = published \o BroadcastEcho(message)
    /\ trace' = [i \in 1..Len(BroadcastEcho(message)) |-> "publish_broadcast"]
    /\ chat_history' = chat_history \o message.context
    /\ context' = ThinkPrepare(chat_history')
    /\ pc' = "Reflecting"
    /\ task' = "user"
    /\ in_loop' = FALSE
    /\ UNCHANGED <<tools, broadcast_topic, system_message, thought, num_tool_calls,
                   llm_result, idx, tool_results, outcome>>
    /\ UNCHANGED not_agent

\* handle_agent_task up to its model call
HandleAgentTask(message) ==
    /\ pc = "Idle"
    /\ work < MaxWork
    /\ work' = work + 1
    /\ delivered' = Append(delivered, Delivery("AgentTask", message))
    /\ chat_history' = MergeOrExtend(chat_history, message)
    /\ sender_agent_topic' = ReplyTarget(sender_agent_topic, message)
    /\ communication_tools' = SetCommunicationTools(communication_tools)
    /\ trace' = <<>>
    /\ IF AvailableTools(communication_tools').raised
       THEN /\ HandlerEnds("raised")
       ELSE /\ pc' = "AwaitingModel"
            /\ task' = "agent"
            /\ in_loop' = FALSE
            /\ UNCHANGED <<outcome, context, llm_result, idx, tool_results>>
    /\ UNCHANGED <<tools, broadcast_topic, system_message, thought, num_tool_calls,
                   published>>
    /\ UNCHANGED not_agent

\* a broadcast handler without the sender test of line 69
HandleBroadcastMessage_NoSenderCheck(message) ==
    /\ pc = "Idle"
    /\ work < MaxWork
    /\ work' = work + 1
    /\ delivered' = Append(delivered, Delivery("BroadCastMessage", message))
    /\ system_message' = system_message \o message.context[1].text
    /\ UNCHANGED <<config, chat_history, sender_agent_topic, thought,
                   num_tool_calls, pc, task, in_loop, locals, published, trace,
                   outcome>>
    /\ UNCHANGED not_agent

\* handle_broadcast_message
HandleBroadcastMessage(message) ==
    /\ pc = "Idle"
    /\ work < MaxWork
    /\ work' = work + 1
    /\ delivered' = Append(delivered, Delivery("BroadCastMessage", message))
    /\ IF message.sender_topic_type # SelfType
       THEN system_message' = system_message \o message.context[1].text
       ELSE system_message' = system_message
    /\ UNCHANGED <<config, chat_history, sender_agent_topic, thought,
                   num_tool_calls, pc, task, in_loop, locals, published, trace,
                   outcome>>
    /\ UNCHANGED not_agent

\* ------------------------------------------------------ reflection sub-loop
\* what the caller of think does with the returned think_context, then its
\* available_tools expression
ReflectionReturns(think_context) ==
    /\ chat_history' = chat_history \o think_context
    /\ num_tool_calls' = IF in_loop THEN 0 ELSE num_tool_calls
    /\ GoToModelCall(communication_tools)

\* run_reflection, the branch taken while no thought exists (lines 147-195)
ReflectCreate(result) ==
    /\ pc = "Reflecting"
    /\ thought = ""
    /\ work' = work + ReflectionCost(result)
    /\ LET r == ReflectionLoop(result, 1, thought, <<>>)
       IN  /\ thought' = r.thought
           /\ trace' = Append(trace, "reflect_model_create_thought")
           /\ IF r.raised
              THEN /\ HandlerEnds("raised")
                   /\ UNCHANGED <<chat_history, num_tool_calls>>
              ELSE ReflectionReturns(
                       <<AssistantCalls(result, SelfType),
                         FunctionExecutionResultMessage(r.results)>>)
    /\ UNCHANGED <<config, system_message, sender_agent_topic, published,
                   delivered>>
    /\ UNCHANGED not_agent

\* a pass that ends after its first turn whatever the model called
ReflectGetUpdate_NoRecursion(result) ==
    /\ pc = "Reflecting"
    /\ thought # ""
    /\ work + ReflectionCost(result) <= MaxWork
    /\ work' = work + ReflectionCost(result)
    /\ LET r == ReflectionLoop(result, 1, thought, <<>>)
       IN  /\ thought' = r.thought
           /\ trace' = Append(trace, "reflect_model_get_update")
           /\ IF r.raised
              THEN /\ HandlerEnds("raised")
                   /\ UNCHANGED <<chat_history, num_tool_calls>>
              ELSE ReflectionReturns(
                       <<AssistantCalls(result, SelfType),
                         FunctionExecutionResultMessage(r.results)>>)
    /\ UNCHANGED <<config, system_message, sender_agent_topic, published,
                   delivered>>
    /\ UNCHANGED not_agent

\* run_reflection, the branch taken while a thought exists (lines 83-145)
ReflectGetUpdate(result) ==
    /\ pc = "Reflecting"
    /\ thought # ""
    /\ work + ReflectionCost(result) <= MaxWork
    /\ work' = work + ReflectionCost(result)
    /\ LET r == ReflectionLoop(result, 1, thought, <<>>)
       IN  /\ thought' = r.thought
           /\ trace' = Append(trace, "reflect_model_get_update")
           /\ IF r.raised
              THEN /\ HandlerEnds("raised")
                   /\ UNCHANGED <<chat_history, num_tool_calls>>
              ELSE IF GetThoughtCalled(result)
              THEN /\ context' = context \o
                          <<AssistantCalls(result, SelfType),
                            FunctionExecutionResultMessage(r.results)>>
                   /\ UNCHANGED <<chat_history, num_tool_calls, pc, task, in_loop,
                                  outcome, llm_result, idx, tool_results>>
              ELSE ReflectionReturns(
                       <<AssistantCalls(result, SelfType),
                         FunctionExecutionResultMessage(r.results)>>)
    /\ UNCHANGED <<config, system_message, sender_agent_topic, published,
                   delivered>>
    /\ UNCHANGED not_agent

\* ------------------------------------------------------------ main cycle
\* a reply published to the agent's own topic instead of the reply target
HandleResponse_ToSelf(text) ==
    /\ chat_history' = Append(chat_history, AssistantText(<<text>>, SelfType))
    /\ published' = Append(published,
            AgentResponse(SelfType, <<AssistantText(<<text>>, SelfType)>>, SelfType))
    /\ trace' = Append(Append(trace, "main_model"), "publish_response")
    /\ HandlerEnds("replied")

\* handle_response
HandleResponse(text) ==
    /\ chat_history' = Append(chat_history, AssistantText(<<text>>, SelfType))
    /\ published' = Append(published,
            AgentResponse(SelfType, <<AssistantText(<<text>>, SelfType)>>,
                          sender_agent_topic))
    /\ trace' = Append(Append(trace, "main_model"), "publish_response")
    /\ HandlerEnds("replied")

\* the model client returns plain text to one of the three main-cycle calls
\* (lines 127-142, 185-196, 333-347)
ModelReturnsText(text) ==
    /\ pc = "AwaitingModel"
    /\ IF task = "agent" /\ ~in_loop
       THEN \* handle_agent_task has no else branch: the text is dropped
            /\ trace' = Append(trace, "main_model")
            /\ HandlerEnds("silent")
            /\ UNCHANGED <<chat_history, published>>
       ELSE HandleResponse(text)
    /\ UNCHANGED <<config, system_message, sender_agent_topic, thought,
                   num_tool_calls, delivered, work>>
    /\ UNCHANGED not_agent

\* the model client returns a list of function calls: handle_function_calls
\* is entered and appends the Assistant entry (lines 221-225)
ModelReturnsCalls(batch) ==
    /\ pc = "AwaitingModel"
    /\ work + Len(batch) <= MaxWork
    /\ work' = work + Len(batch)
    /\ chat_history' = Append(chat_history, AssistantCalls(batch, SelfType))
    /\ llm_result' = batch
    /\ tool_results' = <<>>
    /\ idx' = 1
    /\ in_loop' = TRUE
    /\ pc' = "ExecutingTools"
    /\ trace' = Append(trace, "main_model")
    /\ UNCHANGED <<config, system_message, sender_agent_topic, thought,
                   num_tool_calls, task, context, published, outcome, delivered>>
    /\ UNCHANGED not_agent

\* the model call itself fails: nothing catches it in the handlers
ModelCallFails ==
    /\ pc = "AwaitingModel"
    /\ trace' = Append(trace, "main_model")
    /\ HandlerEnds("raised")
    /\ UNCHANGED <<config, system_message, chat_history, sender_agent_topic,
                   thought, num_tool_calls, published, delivered, work>>
    /\ UNCHANGED not_agent

\* one iteration of "for call in llm_result.content" (lines 227-310)
ExecuteCall(o) ==
    /\ pc = "ExecutingTools"
    /\ idx <= Len(llm_result)
    /\ num_tool_calls' = num_tool_calls + 1
    /\ LET r == ResolveCall(llm_result[idx], o)
       IN  IF r.raised
           THEN /\ HandlerEnds("raised")
                /\ trace' = Append(trace, r.event)
           ELSE /\ tool_results' = Append(tool_results, r.result)
                /\ idx' = idx + 1
                /\ trace' = Append(trace, r.event)
                /\ UNCHANGED <<pc, task, in_loop, outcome, context, llm_result>>
    /\ UNCHANGED <<config, system_message, chat_history, sender_agent_topic,
                   thought, published, delivered, work>>
    /\ UNCHANGED not_agent

\* after the loop (lines 312-337): append the results entry, reflect when the
\* counter exceeds 3, then go to the next model call
FinishBatch ==
    /\ pc = "ExecutingTools"
    /\ idx > Len(llm_result)
    /\ chat_history' = Append(chat_history,
                              FunctionExecutionResultMessage(tool_results))
    /\ trace' = Append(trace, "results_appended")
    /\ IF num_tool_calls > 3
       THEN /\ context' = ThinkPrepare(chat_history')
            /\ pc' = "Reflecting"
            /\ UNCHANGED <<task, in_loop, outcome, llm_result, idx, tool_results>>
       ELSE GoToModelCall(communication_tools)
    /\ UNCHANGED <<config, system_message, sender_agent_topic, thought,
                   num_tool_calls, published, delivered, work>>
    /\ UNCHANGED not_agent

\* ------------------------------------------------------------------- Next
Next ==
    \/ \E m \in TaskMessages : HandleUserTask(m)
    \/ \E m \in TaskMessages : HandleAgentTask(m)
    \/ \E m \in BroadcastDeliveries : HandleBroadcastMessage(m)
    \/ \E b \in CreateBatches(MaxWork - work) : ReflectCreate(b)
    \/ \E b \in GetUpdateBatches(MaxWork - work) : ReflectGetUpdate(b)
    \/ \E t \in ModelTexts : ModelReturnsText(t)
    \/ \E b \in MainBatches(MaxWork - work) : ModelReturnsCalls(b)
    \/ ModelCallFails
    \/ \E o \in ToolOutcomes : ExecuteCall(o)
    \/ FinishBatch

Spec == Init /\ [][Next]_vars

\* ------------------------------------------------- an agent with a history
\* The agent after it has handled one AgentTask from "Peer" in which the model
\* called "search" k times in one batch and then answered in plain text: the
\* handler has replied, the counter stands at k and no thought exists yet.
EarlierCalls == {2, 3}

EarlierBatch(k) == [i \in 1..k |-> FunctionCall(i, "search", "{}")]

EarlierResults(k) ==
    [i \in 1..k |-> RunFoundTool(EarlierBatch(k)[i], "ok").result]

EarlierTask == [sender_topic_type |-> "Peer",
                context |-> <<UserMessage(<<TaskText("Peer")>>, "Peer")>>]

LoopInit ==
    /\ \E k \in EarlierCalls :
          /\ num_tool_calls = k
          /\ chat_history =
                EarlierTask.context \o
                <<AssistantCalls(EarlierBatch(k), SelfType),
                  FunctionExecutionResultMessage(EarlierResults(k)),
                  AssistantText(<<"answer">>, SelfType)>>
          /\ trace = <<"main_model">> \o [i \in 1..k |-> "tool_ok"] \o
                     <<"results_appended", "main_model", "publish_response">>
    /\ tools = <<"search">>
    /\ communication_tools = [resolved |-> FALSE, names |-> <<>>]
    /\ broadcast_topic = "BCAST"
    /\ system_message = <<"SYS">>
    /\ sender_agent_topic = "Peer"
    /\ thought = ""
    /\ pc = "Idle"
    /\ task = "none"
    /\ in_loop = FALSE
    /\ context = <<>>
    /\ llm_result = <<>>
    /\ idx = 0
    /\ tool_results = <<>>
    /\ published = <<AgentResponse(SelfType,
                                   <<AssistantText(<<"answer">>, SelfType)>>,
                                   "Peer")>>
    /\ outcome = "replied"
    /\ delivered = <<Delivery("AgentTask", EarlierTask)>>
    /\ work = 0
    /\ TopicsAtRest /\ EvalAtRest /\ ChatAtRest /\ MetricsAtRest /\ EntropyAtRest /\ NotesAtRest /\ OtherAtRest

SpecLoop == LoopInit /\ [][Next]_vars

\* ============================================================ topic router
\* setup_messaging_topics (messaging/messaging.py) as main() calls it, one
\* step per awaited add_subscription, followed by the publishes of the run.
MaxAgents == 3
MaxPublishes == 2

AgentTypes == {"User", "Triage", "RAG", "WebSearch"}     \* agents_config names
BroadcastTopicTypes == {"PLACEHOLDER_BROADCAST", "BCAST"}  \* no agent's name

\* the agents dict: distinct agent types in registration order
AgentDicts ==
    UNION { { a \in [1..n -> AgentTypes] :
                \A i, j \in 1..n : i # j => a[i] # a[j] } : n \in 0..MaxAgents }

TypeSubscription(topic_type, agent_type) ==
    [topic_type |-> topic_type, agent_type |-> agent_type]

\* lines 29-32: what the first loop adds for one agent
IdentitySubscription(agent_type) ==
    <<TypeSubscription(agent_type, agent_type)>>

\* a second loop that subscribes every agent, the user included
BroadcastSubscription_EveryAgent(agent_type, topic_type) ==
    <<TypeSubscription(topic_type, agent_type)>>

\* lines 34-41: what the second loop adds for one agent
BroadcastSubscription(agent_type, topic_type) ==
    IF agent_type # "User"
    THEN <<TypeSubscription(topic_type, agent_type)>>
    ELSE <<>>

\* the agent types a publish to a topic is delivered to
Recipients(topic_type) ==
    { subscriptions[k].agent_type : k \in
        { k \in 1..Len(subscriptions) : subscriptions[k].topic_type = topic_type } }

\* main(), lines 33-53: the agents are registered, setup is about to run
TopicsInit ==
    /\ agents \in AgentDicts
    /\ broadcast_topic_type \in BroadcastTopicTypes
    /\ subscriptions = <<>>
    /\ setup_pc = "identity"
    /\ setup_i = 1
    /\ routed = <<>>
    /\ AgentAtRest /\ OtherAtRest /\ NotesAtRest /\ EntropyAtRest /\ MetricsAtRest /\ ChatAtRest /\ EvalAtRest

SubscribeIdentity ==
    /\ setup_pc = "identity"
    /\ setup_i <= Len(agents)
    /\ subscriptions' = subscriptions \o IdentitySubscription(agents[setup_i])
    /\ setup_i' = setup_i + 1
    /\ UNCHANGED <<agents, broadcast_topic_type, setup_pc, routed>>
    /\ UNCHANGED not_topics

\* the first loop is exhausted, the second starts
StartBroadcastLoop ==
    /\ setup_pc = "identity"
    /\ setup_i > Len(agents)
    /\ setup_pc' = "broadcast"
    /\ setup_i' = 1
    /\ UNCHANGED <<agents, broadcast_topic_type, subscriptions, routed>>
    /\ UNCHANGED not_topics

SubscribeBroadcast ==
    /\ setup_pc = "broadcast"
    /\ setup_i <= Len(agents)
    /\ subscriptions' =
          subscriptions \o BroadcastSubscription(agents[setup_i], broadcast_topic_type)
    /\ setup_i' = setup_i + 1
    /\ UNCHANGED <<agents, broadcast_topic_type, setup_pc, routed>>
    /\ UNCHANGED not_topics

\* the second loop is exhausted, setup_messaging_topics returns
SetupReturns ==
    /\ setup_pc = "broadcast"
    /\ setup_i > Len(agents)
    /\ setup_pc' = "done"
    /\ setup_i' = 0
    /\ UNCHANGED <<agents, broadcast_topic_type, subscriptions, routed>>
    /\ UNCHANGED not_topics

\* a publish_message of the run (main() line 60, the handlers of the agents):
\* the runtime reads the table to find the recipients; no handler adds to it
PublishMessage(topic_type) ==
    /\ setup_pc = "done"
    /\ Len(routed) < MaxPublishes
    /\ routed' = Append(routed, [topic |-> topic_type,
                                 recipients |-> Recipients(topic_type)])
    /\ UNCHANGED <<agents, broadcast_topic_type, subscriptions, setup_pc, setup_i>>
    /\ UNCHANGED not_topics

TopicsNext ==
    \/ SubscribeIdentity
    \/ StartBroadcastLoop
    \/ SubscribeBroadcast
    \/ SetupReturns
    \/ \E t \in AgentTypes \cup BroadcastTopicTypes : PublishMessage(t)

SpecTopics == TopicsInit /\ [][TopicsNext]_vars

\* ====================================================== evaluation service
\* EvaluationService (eval/services/evaluation_service.py) as eval/main.py
\* uses it: one module-level service object serves every evaluation run; each
\* run gets a database session of its own.  A run is split at the calls of
\* run_evaluation and evaluate_trace.
MaxRuns == 2
MaxSpans == 4

TraceIds == {"tr1", "tr2", "tr3"}
StartTimes == {1, 2}
SpanIds == <<"s1", "s2", "s3", "s4", "s5", "s6", "s7", "s8">>

Span(span_id, name, span_kind, parent_id, start_time, trace_id) ==
    [span_id |-> span_id, name |-> name, span_kind |-> span_kind,
     parent_id |-> parent_id, start_time |-> start_time, trace_id |-> trace_id]

\* the span table the trace store returns for a trace id
GetPxTraceSpans(trace_id) ==
    CASE trace_id = "tr1" ->
           << Span("a1", "Triage", "AGENT", "", 1, "tr1"),
              Span("a2", "completion", "LLM", "a1", 1, "tr1"),
              Span("a3", "search", "TOOL", "a1", 2, "tr1") >>
      [] trace_id = "tr2" ->
           << Span("b1", "Triage", "AGENT", "", 1, "tr2"),
              Span("b2", "RAG", "AGENT", "", 2, "tr2"),
              Span("b3", "search", "TOOL", "b2", 2, "tr2") >>
      [] OTHER ->
           << Span("c1", "RAG", "AGENT", "", 1, "tr3"),
              Span("c2", "completion", "LLM", "c1", 1, "tr3") >>

\* span tables of MaxSpans rows: row i has span id SpanIds[i]; an LLM or TOOL
\* span has no parent or one of the first two rows as its parent
SpanShapes ==
    { [name |-> n, span_kind |-> "AGENT", parent_id |-> "", start_time |-> 1] :
        n \in {"Triage", "RAG"} }
    \cup
    { [name |-> IF k = "LLM" THEN "completion" ELSE "search", span_kind |-> k,
       parent_id |-> q, start_time |-> t] :
        k \in {"LLM", "TOOL"}, q \in {"", "s1", "s2"}, t \in StartTimes }

SpanTables ==
    { [i \in 1..MaxSpans |->
         Span(SpanIds[i], f[i].name, f[i].span_kind, f[i].parent_id,
              f[i].start_time, "tr1")] : f \in [1..MaxSpans -> SpanShapes] }

\* sort_values("start_time") of a small frame: insertion keeps equal keys in
\* table order
InsertByStartTime(sorted, row) ==
    LET k == Cardinality({ i \in 1..Len(sorted) :
                             sorted[i].start_time <= row.start_time })
    IN  SubSeq(sorted, 1, k) \o <<row>> \o SubSeq(sorted, k + 1, Len(sorted))

RECURSIVE SortByStartTime(_)
SortByStartTime(rows) ==
    IF rows = <<>> THEN <<>>
    ELSE InsertByStartTime(SortByStartTime(SubSeq(rows, 1, Len(rows) - 1)),
                           rows[Len(rows)])

\* lines 131-133
AgentSpans(df) == SelectSeq(df, LAMBDA row : row.span_kind = "AGENT")

\* child spans selected by kind only, whatever their parent
ChildSpans_AnyParent(df, parent_id, span_kind) ==
    SortByStartTime(SelectSeq(df, LAMBDA row : row.span_kind = span_kind))

\* lines 159-162 and 197-200
ChildSpans(df, parent_id, span_kind) ==
    SortByStartTime(SelectSeq(df, LAMBDA row :
        row.parent_id = parent_id /\ row.span_kind = span_kind))

\* The trajectories dict is a set of items, one per (agent, key) pair:
\* dict[agent][key].  An invocation entry has agent_type, tool_spans and
\* completion_spans, and agent_steps once the steps were parsed (-1: no such
\* key); a "tool_metrics" or "stepwise_metrics" entry has none of them.
TrajectoryEntry(df, parent_row) ==
    [agent |-> parent_row.name, key |-> parent_row.span_id,
     agent_type |-> parent_row.name,
     tool_spans |-> ChildSpans(df, parent_row.span_id, "TOOL"),
     completion_spans |-> ChildSpans(df, parent_row.span_id, "LLM"),
     agent_steps |-> -1, tool_calls |-> 0]

MetricsEntry(agent, key, tool_calls) ==
    [agent |-> agent, key |-> key, agent_type |-> "", tool_spans |-> <<>>,
     completion_spans |-> <<>>, agent_steps |-> -1, tool_calls |-> tool_calls]

\* d[agent][key] = value for each of the items
DictUpdate(d, items) ==
    { x \in d : ~ \E n \in items : n.agent = x.agent /\ n.key = x.key } \cup items

\* curate_agent_trajectories_dict, lines 130-222: the dict it leaves
Curate(df, d) ==
    DictUpdate(d, { TrajectoryEntry(df, AgentSpans(df)[i]) :
                      i \in 1..Len(AgentSpans(df)) })

AgentNames(d) == { x.agent : x \in d }
Traces(d, agent) == { x \in d : x.agent = agent }

RECURSIVE SumToolCalls(_)
SumToolCalls(traces) ==
    IF traces = {} THEN 0
    ELSE LET x == CHOOSE x \in traces : TRUE
         IN  Len(x.tool_spans) + SumToolCalls(traces \ {x})

\* process_agent_tool_metrics, line 259: invocation_trace["tool_spans"] of a
\* value that has no such key raises KeyError
ProcessToolMetricsRaises(d) ==
    \E x \in d : x.agent_type = ""

\* calculate_tool_metrics, lines 224-243
ToolMetrics(d) ==
    DictUpdate(d, { MetricsEntry(a, "tool_metrics", SumToolCalls(Traces(d, a))) :
                      a \in AgentNames(d) })

Row(table, run, trace_id, key, index) ==
    [table |-> table, run |-> run, trace_id |-> trace_id, key |-> key,
     index |-> index]

\* calculate_tool_usefulness, lines 324-362: one row per tool name and trace
ToolUsefulnessRows(df, run) ==
    { Row("ToolUsefulness", run, df[i].trace_id, df[i].name, 0) :
        i \in { i \in 1..Len(df) : df[i].span_kind = "TOOL" } }

\* evaluate_agent_steps, lines 368-403: an invocation with completion spans
\* gets the steps parsed from its last completion span (one per completion
\* of the invocation); every agent gets a "stepwise_metrics" entry
AgentSteps(d) ==
    LET parsed == { [x EXCEPT !.agent_steps = Len(x.completion_spans)] :
                      x \in { x \in d : /\ x.agent_type # ""
                                        /\ Len(x.completion_spans) > 0 } }
    IN  DictUpdate(DictUpdate(d, parsed),
                   { MetricsEntry(a, "stepwise_metrics", 0) : a \in AgentNames(d) })

\* run_evaluation, lines 56-107: the records built from the dict
Records(d, run, trace_id) ==
    { Row("Agent", run, trace_id, a, 0) : a \in AgentNames(d) }
    \cup { Row("AgentTrace", run, trace_id, x.key, 0) :
             x \in { x \in d : x.agent_type # "" } }
    \cup UNION { { Row("AgentStep", run, trace_id, x.key, i) :
                     i \in 0..(x.agent_steps - 1) } :
                 x \in { x \in d : x.agent_type # "" } }

\* db.flush(), line 111: Agent.trace_id is unique and AgentTrace.invocation_id
\* is the primary key (utils/sql_utils.py)
FlushRaises(rows, committed) ==
    \/ Cardinality({ r \in rows : r.table = "Agent" }) > 1
    \/ \E r \in rows, c \in committed :
          r.table = "AgentTrace" /\ c.table = "AgentTrace" /\ r.key = c.key

Running == {"curate", "tool_metrics", "tool_usefulness", "agent_steps",
            "persist", "flush"}

\* the service as eval/main.py line 27 constructs it, an empty database
EvalInit ==
    /\ trace_df = <<>>
    /\ current_evaluation_id = 0
    /\ agent_trajectories_dict = {}
    /\ evaluations = <<>>
    /\ db_rows = {}
    /\ session = {}
    /\ run_pc = "idle"
    /\ responses = <<>>
    /\ AgentAtRest /\ OtherAtRest /\ NotesAtRest /\ EntropyAtRest /\ MetricsAtRest /\ ChatAtRest /\ TopicsAtRest

\* lines 113-119: rollback, then the evaluation row is marked FAILED
ExceptHandler ==
    /\ session' = {}
    /\ evaluations' = [evaluations EXCEPT ![current_evaluation_id].status = "FAILED"]
    /\ run_pc' = "idle"

\* what a request was answered: the JSON body of lines 45-48 and 67-70, and
\* whether the handler added the background run (line 65); a handler that
\* raised answers with an error and no body
Response(trace_id, evaluation_id, evaluation_status, run_started) ==
    [trace_id |-> trace_id, evaluation_id |-> evaluation_id,
     evaluation_status |-> evaluation_status, run_started |-> run_started]

\* create_evaluation (eval/main.py lines 30-65) for a trace that has no
\* evaluation yet, up to the start of the background run
CreateEvaluation(trace_id) ==
    /\ run_pc = "idle"
    /\ Len(evaluations) < MaxRuns
    /\ \A e \in 1..Len(evaluations) : evaluations[e].trace_id # trace_id
    /\ evaluations' = Append(evaluations,
                             [trace_id |-> trace_id, status |-> "IN_PROGRESS"])
    /\ current_evaluation_id' = Len(evaluations) + 1
    /\ trace_df' = GetPxTraceSpans(trace_id)
    /\ session' = {}
    /\ run_pc' = "curate"
    /\ responses' = Append(responses,
                           Response(trace_id, Len(evaluations) + 1, "IN_PROGRESS",
                                    TRUE))
    /\ UNCHANGED <<agent_trajectories_dict, db_rows>>
    /\ UNCHANGED not_eval

CurateAgentTrajectoriesDict ==
    /\ run_pc = "curate"
    /\ agent_trajectories_dict' = Curate(trace_df, agent_trajectories_dict)
    /\ run_pc' = "tool_metrics"
    /\ UNCHANGED <<trace_df, current_evaluation_id, evaluations, db_rows, session>>
    /\ UNCHANGED responses
    /\ UNCHANGED not_eval

CalculateToolMetrics ==
    /\ run_pc = "tool_metrics"
    /\ IF ProcessToolMetricsRaises(agent_trajectories_dict)
       THEN /\ ExceptHandler
            /\ UNCHANGED agent_trajectories_dict
       ELSE /\ agent_trajectories_dict' = ToolMetrics(agent_trajectories_dict)
            /\ run_pc' = "tool_usefulness"
            /\ UNCHANGED <<evaluations, session>>
    /\ UNCHANGED <<trace_df, current_evaluation_id, db_rows>>
    /\ UNCHANGED responses
    /\ UNCHANGED not_eval

\* lines 355-364: the rows are added to the session and committed
CalculateToolUsefulness ==
    /\ run_pc = "tool_usefulness"
    /\ db_rows' = db_rows \cup session
                          \cup ToolUsefulnessRows(trace_df, current_evaluation_id)
    /\ session' = {}
    /\ run_pc' = "agent_steps"
    /\ UNCHANGED <<trace_df, current_evaluation_id, agent_trajectories_dict,
                   evaluations>>
    /\ UNCHANGED responses
    /\ UNCHANGED not_eval

EvaluateAgentSteps ==
    /\ run_pc = "agent_steps"
    /\ agent_trajectories_dict' = AgentSteps(agent_trajectories_dict)
    /\ run_pc' = "persist"
    /\ UNCHANGED <<trace_df, current_evaluation_id, evaluations, db_rows, session>>
    /\ UNCHANGED responses
    /\ UNCHANGED not_eval

\* lines 46-110: the records are attached to the evaluation row
BuildRecords ==
    /\ run_pc = "persist"
    /\ session' = session \cup
                  Records(agent_trajectories_dict, current_evaluation_id,
                          evaluations[current_evaluation_id].trace_id)
    /\ run_pc' = "flush"
    /\ UNCHANGED <<trace_df, current_evaluation_id, agent_trajectories_dict,
                   evaluations, db_rows>>
    /\ UNCHANGED responses
    /\ UNCHANGED not_eval

\* lines 110-112: status COMPLETED, flush, commit
FlushAndCommit ==
    /\ run_pc = "flush"
    /\ IF FlushRaises(session, db_rows)
       THEN /\ ExceptHandler
            /\ UNCHANGED db_rows
       ELSE /\ db_rows' = db_rows \cup session
            /\ session' = {}
            /\ evaluations' =
                 [evaluations EXCEPT ![current_evaluation_id].status = "COMPLETED"]
            /\ run_pc' = "idle"
    /\ UNCHANGED <<trace_df, current_evaluation_id, agent_trajectories_dict>>
    /\ UNCHANGED responses
    /\ UNCHANGED not_eval

\* the step about to run raises (a scoring request, a missing column, the
\* database) before it has changed anything
StepRaises ==
    /\ run_pc \in Running
    /\ ExceptHandler
    /\ UNCHANGED <<trace_df, current_evaluation_id, agent_trajectories_dict,
                   db_rows>>
    /\ UNCHANGED responses
    /\ UNCHANGED not_eval

EvalNext ==
    \/ \E t \in TraceIds : CreateEvaluation(t)
    \/ CurateAgentTrajectoriesDict
    \/ CalculateToolMetrics
    \/ CalculateToolUsefulness
    \/ EvaluateAgentSteps
    \/ BuildRecords
    \/ FlushAndCommit
    \/ StepRaises

SpecEval == EvalInit /\ [][EvalNext]_vars

\* -------------------------------------------- requests to /run_evaluations
\* every request the endpoint can get: for a new trace id, for a trace id that
\* has a row already, and one whose span fetch fails
MaxRequests == 3

\* the committed row of a trace id (line 41-43): its id, 0 when there is none
RowOf(trace_id) ==
    IF \E e \in 1..Len(evaluations) : evaluations[e].trace_id = trace_id
    THEN CHOOSE e \in 1..Len(evaluations) : evaluations[e].trace_id = trace_id
    ELSE 0

\* a handler that runs a failed evaluation again
CreateEvaluationExisting_RetriesFailed(trace_id) ==
    /\ Len(responses) < MaxRequests
    /\ RowOf(trace_id) # 0
    /\ IF evaluations[RowOf(trace_id)].status = "FAILED" /\ run_pc = "idle"
       THEN /\ responses' = Append(responses,
                   Response(trace_id, RowOf(trace_id), "IN_PROGRESS", TRUE))
            /\ evaluations' =
                   [evaluations EXCEPT ![RowOf(trace_id)].status = "IN_PROGRESS"]
            /\ current_evaluation_id' = RowOf(trace_id)
            /\ trace_df' = GetPxTraceSpans(trace_id)
            /\ session' = {}
            /\ run_pc' = "curate"
            /\ UNCHANGED <<agent_trajectories_dict, db_rows>>
       ELSE /\ responses' = Append(responses,
                   Response(trace_id, RowOf(trace_id),
                            evaluations[RowOf(trace_id)].status, FALSE))
            /\ UNCHANGED <<trace_df, current_evaluation_id,
                           agent_trajectories_dict, evaluations, db_rows, session,
                           run_pc>>
    /\ UNCHANGED not_eval

\* create_evaluation for a trace id that has a row (lines 41-48): the handler
\* has no await, so it runs between two steps of a background run
CreateEvaluationExisting(trace_id) ==
    /\ Len(responses) < MaxRequests
    /\ RowOf(trace_id) # 0
    /\ responses' = Append(responses,
           Response(trace_id, RowOf(trace_id),
                    evaluations[RowOf(trace_id)].status, FALSE))
    /\ UNCHANGED <<trace_df, current_evaluation_id, agent_trajectories_dict,
                   evaluations, db_rows, session, run_pc>>
    /\ UNCHANGED not_eval

\* create_evaluation for a new trace id when get_px_trace_spans raises (line
\* 57): the row is committed at line 53, the handler is left by the
\* exception before line 65 adds the background run
CreateEvaluationFetchRaises(trace_id) ==
    /\ Len(responses) < MaxRequests
    /\ Len(evaluations) < MaxRuns
    /\ RowOf(trace_id) = 0
    /\ evaluations' = Append(evaluations,
                             [trace_id |-> trace_id, status |-> "IN_PROGRESS"])
    /\ responses' = Append(responses, Response(trace_id, 0, "error", FALSE))
    /\ UNCHANGED <<trace_df, current_evaluation_id, agent_trajectories_dict,
                   db_rows, session, run_pc>>
    /\ UNCHANGED not_eval

\* the steps of the background run once it has been added
RunEvaluation ==
    \/ CurateAgentTrajectoriesDict
    \/ CalculateToolMetrics
    \/ CalculateToolUsefulness
    \/ EvaluateAgentSteps
    \/ BuildRecords
    \/ FlushAndCommit

RequestsNext ==
    \/ \E t \in TraceIds : CreateEvaluation(t)
    \/ \E t \in TraceIds : CreateEvaluationExisting(t)
    \/ \E t \in TraceIds : CreateEvaluationFetchRaises(t)
    \/ RunEvaluation
    \/ StepRaises

\* the framework runs an added background task to its end: run_evaluation is
\* synchronous code, so a run that has a next step takes it
SpecRequests == EvalInit /\ [][RequestsNext]_vars /\ WF_vars(RunEvaluation)

\* trace curation alone: a fresh service is given one span table
CurateInit ==
    /\ trace_df \in SpanTables
    /\ current_evaluation_id = 1
    /\ agent_trajectories_dict = {}
    /\ evaluations = <<[trace_id |-> "tr1", status |-> "IN_PROGRESS"]>>
    /\ db_rows = {}
    /\ session = {}
    /\ run_pc = "curate"
    /\ responses = <<>>
    /\ AgentAtRest /\ OtherAtRest /\ NotesAtRest /\ EntropyAtRest /\ MetricsAtRest /\ ChatAtRest /\ TopicsAtRest

CurateNext == CurateAgentTrajectoriesDict

SpecCurate == CurateInit /\ [][CurateNext]_vars

\* =========================================================== parse_chat_n
\* parse_chat_n (eval/utils/chat_utils.py).  A transcript is a sequence of
\* message kinds; the content of the message at position i is identified by
\* i, so that every response is distinguishable.  Strings built by formatting
\* are kept as the sequence of their parts.
MaxChat == 4
MaxWindow == 2

MessageKinds == {"system", "user", "assistant", "assistant_calls", "tool"}

Chats == UNION { [1..n -> MessageKinds] : n \in 0..MaxChat }

\* the sizes of the tool_calls list of an assistant message that has one, and
\* the names of its calls in order (lines 49-51)
CallCounts == {1, 2}
ToolCallNames(k) == SubSeq(<<"search", "lookup">>, 1, k)

\* the tool_calls lists of a transcript: one call wherever the size is not an
\* input
ToolCallLists(c) ==
    { f \in [1..Len(c) -> CallCounts] :
         \A i \in 1..Len(c) : c[i] # "assistant_calls" => f[i] = 1 }

\* previous_responses[-n_previous:] (n_previous >= 0): since -0 is 0, a
\* window size of 0 slices the whole list
LastN(list, n) ==
    IF n = 0 \/ n >= Len(list) THEN list
    ELSE SubSeq(list, Len(list) - n + 1, Len(list))

\* lines 80-84 and 107-111: None without a previous response, else the
\* numbered entries of the last n_previous responses
PreviousResponseStr(previous_responses, n) ==
    LET window == LastN(previous_responses, n)
    IN  [is_null |-> previous_responses = <<>>,
         entries |-> [j \in 1..Len(window) |->
                        [num |-> Len(window) - (j - 1), text |-> window[j]]]]

\* line 93 and 119: idx is also the variable of the formatting loop
ChatIndex(previous_responses, n, outer_idx) ==
    IF LastN(previous_responses, n) = <<>> THEN outer_idx
    ELSE Len(LastN(previous_responses, n)) - 1

\* a collection that does not stop at the first non-tool message
RECURSIVE ToolResults_AllLater(_, _)
ToolResults_AllLater(c, i) ==
    IF i + 1 > Len(c) THEN <<>>
    ELSE IF c[i + 1] = "tool" THEN <<i + 1>> \o ToolResults_AllLater(c, i + 1)
    ELSE ToolResults_AllLater(c, i + 1)

\* lines 55-61: the tool messages that directly follow position i
RECURSIVE ToolResults(_, _)
ToolResults(c, i) ==
    IF i + 1 <= Len(c) /\ c[i + 1] = "tool"
    THEN <<i + 1>> \o ToolResults(c, i + 1)
    ELSE <<>>

\* lines 86-99 and 113-124: the step is appended, the history updated
AppendStep(st, n, i, response, labels) ==
    [st EXCEPT
       !.strategy = st.strategy \o labels,
       !.steps = Append(st.steps,
                   [system_prompt |-> st.system_prompt,
                    user_prompt |-> st.user_prompt,
                    strategy |-> st.strategy \o labels,
                    previous_responses |->
                        PreviousResponseStr(st.previous_responses, n),
                    current_response |-> response,
                    chat_index |-> ChatIndex(st.previous_responses, n, i - 1),
                    position |-> i]),
       !.previous_responses = LastN(Append(st.previous_responses, response), n)]

\* a loop body that starts a new trail at every user turn
ParseMessage_TrailPerUserTurn(c, n, i, st) ==
    CASE c[i] = "system" -> [st EXCEPT !.system_prompt = i]
      [] c[i] = "user" ->
           [st EXCEPT !.user_prompt = i, !.previous_responses = <<>>,
                      !.strategy = <<>>]
      [] c[i] = "assistant_calls" ->
           IF ToolResults(c, i) # <<>>
           THEN AppendStep(st, n, i,
                           [calls |-> i, results |-> ToolResults(c, i)],
                           ToolCallNames(tool_call_counts[i]))
           ELSE [st EXCEPT !.strategy =
                              st.strategy \o ToolCallNames(tool_call_counts[i])]
      [] c[i] = "assistant" ->
           AppendStep(st, n, i, [calls |-> 0, results |-> <<i>>],
                      <<"agent response">>)
      [] OTHER -> st

\* the body of the loop of lines 25-124 for the message at position i
ParseMessage(c, n, i, st) ==
    CASE c[i] = "system" -> [st EXCEPT !.system_prompt = i]
      [] c[i] = "user" ->
           [st EXCEPT !.user_prompt = i, !.previous_responses = <<>>]
      [] c[i] = "assistant_calls" ->
           IF ToolResults(c, i) # <<>>
           THEN AppendStep(st, n, i,
                           [calls |-> i, results |-> ToolResults(c, i)],
                           ToolCallNames(tool_call_counts[i]))
           ELSE [st EXCEPT !.strategy =
                              st.strategy \o ToolCallNames(tool_call_counts[i])]
      [] c[i] = "assistant" ->
           AppendStep(st, n, i, [calls |-> 0, results |-> <<i>>],
                      <<"agent response">>)
      [] OTHER -> st

RECURSIVE ParseFrom(_, _, _, _)
ParseFrom(c, n, i, st) ==
    IF i > Len(c) THEN st.steps
    ELSE ParseFrom(c, n, i + 1, ParseMessage(c, n, i, st))

\* parse_chat_n(chat, n_previous)
ParseChatN(c, n) ==
    ParseFrom(c, n, 1, [steps |-> <<>>, strategy |-> <<>>, system_prompt |-> 0,
                        user_prompt |-> 0, previous_responses |-> <<>>])

ChatInit ==
    /\ chat \in Chats
    /\ n_previous \in 0..MaxWindow
    /\ tool_call_counts \in ToolCallLists(chat)
    /\ step_scores = <<>>
    /\ steps = <<>>
    /\ parse_pc = "start"
    /\ AgentAtRest /\ OtherAtRest /\ NotesAtRest /\ EntropyAtRest /\ MetricsAtRest /\ TopicsAtRest /\ EvalAtRest

ParseChat ==
    /\ parse_pc = "start"
    /\ steps' = ParseChatN(chat, n_previous)
    /\ parse_pc' = "done"
    /\ UNCHANGED <<chat, n_previous, tool_call_counts, step_scores>>
    /\ UNCHANGED not_chat

\* stepwise_agent_eval (eval/metrics/agent_step_metrics.py, lines 69-83): the
\* judge returns a number for each dimension of StepwiseScore; a dimension of
\* the result is then either kept ("scored") or set to None ("null")
ScoreDimensions ==
    {"invoked_tool_correctness", "contextual_coherence", "response_completeness",
     "tool_result_correctness", "role_adherence"}

\* step["strategy"].split(" -> ")[-1]
FinalLabel(step) == step.strategy[Len(step.strategy)]

\* "not step['previous_responses']": None and the empty string are falsy
NotPreviousResponses(step) ==
    step.previous_responses.is_null \/ step.previous_responses.entries = <<>>

\* a result whose contextual_coherence is kept whatever came before
StepwiseAgentEval_CoherenceKept(step) ==
    [d \in ScoreDimensions |->
        IF FinalLabel(step) = "response"
        THEN IF d \in {"invoked_tool_correctness", "tool_result_correctness"}
             THEN "null" ELSE "scored"
        ELSE IF d = "response_completeness" THEN "null" ELSE "scored"]

\* lines 70-83
StepwiseAgentEval(step) ==
    [d \in ScoreDimensions |->
        IF d = "contextual_coherence"
        THEN IF NotPreviousResponses(step) THEN "null" ELSE "scored"
        ELSE IF FinalLabel(step) = "response"
        THEN IF d \in {"invoked_tool_correctness", "tool_result_correctness"}
             THEN "null" ELSE "scored"
        ELSE IF d = "response_completeness" THEN "null" ELSE "scored"]

\* the second loop of evaluate_agent_steps (evaluation_service.py, lines
\* 391-398): every step of the trace gets its step_score
ScoreSteps ==
    /\ parse_pc = "done"
    /\ step_scores' = [t \in 1..Len(steps) |-> StepwiseAgentEval(steps[t])]
    /\ parse_pc' = "scored"
    /\ UNCHANGED <<chat, n_previous, tool_call_counts, steps>>
    /\ UNCHANGED not_chat

ChatNext == ParseChat \/ ScoreSteps

SpecChat == ChatInit /\ [][ChatNext]_vars

\* ======================================================= stepwise metrics
\* compute_stepwise_metrics (eval/metrics/agent_step_metrics.py).  Scores and
\* confidences are Python floats: binary floating point that rounds every
\* operation to the nearest representable value, ties to even.  The model
\* keeps that arithmetic with a short mantissa: a value is a natural number
\* of quanta of 2^-FracBits, and is representable when it has at most
\* MantissaBits significant bits.
MantissaBits == 5
FracBits == 6
MaxDims == 2

RECURSIVE Pow2(_)
Pow2(n) == IF n = 0 THEN 1 ELSE 2 * Pow2(n - 1)

Unit == Pow2(FracBits)          \* the value 1.0

\* n/d rounded to an integer, ties to even
RoundHalfEven(n, d) ==
    LET f == n \div d
        r == 2 * (n % d)
    IN  IF r > d \/ (r = d /\ f % 2 = 1) THEN f + 1 ELSE f

\* the position of the leading bit of n/d >= 1
TopBit(n, d) ==
    CHOOSE h \in 0..(FracBits + 8) : Pow2(h) * d <= n /\ n < Pow2(h + 1) * d

\* the float nearest to the exact value n/d (in quanta)
FloatRound(n, d) ==
    IF n < d THEN RoundHalfEven(n, d)
    ELSE LET e == TopBit(n, d) - MantissaBits + 1
             q == IF e > 0 THEN Pow2(e) ELSE 1
         IN  q * RoundHalfEven(n, d * q)

FMul(a, b) == FloatRound(a * b, Unit)
FAdd(a, b) == FloatRound(a + b, 1)
FSub(a, b) == FloatRound(a - b, 1)
FDiv(a, b) == FloatRound(a * Unit, b)

\* the floats of [0, 1]
Floats01 == { x \in 0..Unit : FloatRound(x, 1) = x }

min_score == 1
max_score == 5
low_quality_cutoff == (5 * Unit) \div 2        \* 2.5
high_quality_cutoff == (7 * Unit) \div 2       \* 3.5
AboveLowConfFlag(conf) == 10 * conf > 8 * Unit  \* conf > 0.8

\* raw scores: 0, 0.5, 1, ... 6, inside and outside the scale
RawScores == { (k * Unit) \div 2 : k \in 0..12 }

\* line 105
Midpoint == FDiv((min_score + max_score) * Unit, 2 * Unit)

\* line 104
Clamp(score) ==
    LET low == IF score < max_score * Unit THEN score ELSE max_score * Unit
    IN  IF min_score * Unit > low THEN min_score * Unit ELSE low

\* calibrate, lines 102-107
Calibrate(score, conf) ==
    FAdd(FMul(conf, Clamp(score)), FMul(FSub(Unit, conf), Midpoint))

\* one dimension of a step score: scored when it is a dict whose score and
\* confidence are both not None (lines 126-132)
DimResults ==
    { [scored |-> FALSE, score |-> 0, confidence |-> 0] }
    \cup { [scored |-> TRUE, score |-> s * Unit, confidence |-> c] :
             s \in min_score..max_score,
             c \in {0, Unit \div 2, (13 * Unit) \div 16, Unit} }

\* lines 122-136: the calibrated scores of the scored dimensions, in order
RECURSIVE CalibratedScores(_)
CalibratedScores(data) ==
    IF data = <<>> THEN <<>>
    ELSE CalibratedScores(SubSeq(data, 1, Len(data) - 1)) \o
         ( IF data[Len(data)].scored
           THEN <<Calibrate(data[Len(data)].score, data[Len(data)].confidence)>>
           ELSE <<>> )

\* lines 123 and 143-144
LowFlag(data) ==
    \E i \in 1..Len(data) :
       /\ data[i].scored
       /\ AboveLowConfFlag(data[i].confidence)
       /\ Calibrate(data[i].score, data[i].confidence) < low_quality_cutoff

\* sum(calibrated_scores): left to right from 0
RECURSIVE FloatSum(_)
FloatSum(values) ==
    IF values = <<>> THEN 0
    ELSE FAdd(FloatSum(SubSeq(values, 1, Len(values) - 1)), values[Len(values)])

\* line 147
Aggregate(data) ==
    LET cs == CalibratedScores(data)
    IN  IF cs = <<>> THEN [is_null |-> TRUE, value |-> 0]
        ELSE [is_null |-> FALSE,
              value |-> FDiv(FloatSum(cs), Len(cs) * Unit)]

\* a classification that looks at the aggregated score first
StepQuality_AggregateFirst(low_flag, agg) ==
    IF ~ agg.is_null /\ agg.value > high_quality_cutoff THEN "high"
    ELSE IF low_flag THEN "low"
    ELSE IF ~ agg.is_null /\ agg.value > low_quality_cutoff THEN "medium"
    ELSE "low"

\* lines 150-159
StepQuality(low_flag, agg) ==
    IF low_flag THEN "low"
    ELSE IF ~ agg.is_null /\ agg.value > high_quality_cutoff THEN "high"
    ELSE IF ~ agg.is_null /\ agg.value > low_quality_cutoff THEN "medium"
    ELSE "low"

\* calibration alone: one raw score, two confidences
CalibrateInit ==
    /\ raw_score \in RawScores
    /\ conf_lo \in Floats01
    /\ conf_hi \in { c \in Floats01 : conf_lo <= c }
    /\ cal_lo = 0
    /\ cal_hi = 0
    /\ score_data = <<>>
    /\ step_score_aggregated = [is_null |-> TRUE, value |-> 0]
    /\ step_quality = ""
    /\ metric_pc = "start"
    /\ AgentAtRest /\ OtherAtRest /\ NotesAtRest /\ EntropyAtRest /\ TopicsAtRest /\ EvalAtRest /\ ChatAtRest

CalibrateScores ==
    /\ metric_pc = "start"
    /\ score_data = <<>>
    /\ cal_lo' = Calibrate(raw_score, conf_lo)
    /\ cal_hi' = Calibrate(raw_score, conf_hi)
    /\ metric_pc' = "calibrated"
    /\ UNCHANGED <<raw_score, conf_lo, conf_hi, score_data,
                   step_score_aggregated, step_quality>>
    /\ UNCHANGED not_metrics

CalibrateNext == CalibrateScores

SpecCalibrate == CalibrateInit /\ [][CalibrateNext]_vars

\* classification of one step: its step score has MaxDims dimensions
StepQualityInit ==
    /\ score_data \in [1..MaxDims -> DimResults]
    /\ raw_score = 0 /\ conf_lo = 0 /\ conf_hi = 0 /\ cal_lo = 0 /\ cal_hi = 0
    /\ step_score_aggregated = [is_null |-> TRUE, value |-> 0]
    /\ step_quality = ""
    /\ metric_pc = "start"
    /\ AgentAtRest /\ OtherAtRest /\ NotesAtRest /\ EntropyAtRest /\ TopicsAtRest /\ EvalAtRest /\ ChatAtRest

\* lines 119-159 for one step
ClassifyStep ==
    /\ metric_pc = "start"
    /\ score_data # <<>>
    /\ step_score_aggregated' = Aggregate(score_data)
    /\ step_quality' = StepQuality(LowFlag(score_data), Aggregate(score_data))
    /\ metric_pc' = "classified"
    /\ UNCHANGED <<raw_score, conf_lo, conf_hi, cal_lo, cal_hi, score_data>>
    /\ UNCHANGED not_metrics

StepQualityNext == ClassifyStep

SpecStepQuality == StepQualityInit /\ [][StepQualityNext]_vars

\* ============================================================ tool entropy
\* compute_tool_entropy (eval/metrics/tool_metrics.py) on the frame that
\* process_agent_tool_metrics builds for one tool (evaluation_service.py lines
\* 309-318).  A string is the sequence of its whitespace-separated tokens;
\* numbers are floats as above.
MaxCalls == 3

EntropyTools == {"search", "fetch"}
InputVals == { <<"x">>, <<"x", "y">> }
OutputVals == { <<>>, <<"r">> }

ToolSequences ==
    UNION { [1..n -> [tool_name : EntropyTools, input_val : InputVals,
                      output_val : OutputVals]] : n \in 0..MaxCalls }

\* lines 309-315: the rows of one tool, each with its position in the full
\* sequence
ToolDf(sequence, name) ==
    SelectSeq([i \in 1..Len(sequence) |->
                 [index |-> i - 1, tool_name |-> sequence[i].tool_name,
                  input_val |-> sequence[i].input_val,
                  output_val |-> sequence[i].output_val]],
              LAMBDA row : row.tool_name = name)

\* str.split() made into a set
Tokens(str) == { str[i] : i \in 1..Len(str) }

\* compute_jaccard_similarity, lines 52-61
ComputeJaccardSimilarity(str1, str2) ==
    LET set1 == Tokens(str1)
        set2 == Tokens(str2)
    IN  IF set1 = {} /\ set2 = {} THEN Unit
        ELSE FDiv(Cardinality(set1 \cap set2) * Unit,
                  Cardinality(set1 \cup set2) * Unit)

\* line 73
Successive(tool_df, i) == tool_df[i + 1].index = tool_df[i].index + 1

\* lines 83-91: what one successive pair adds to the penalty
PairPenalty(tool_df, i) ==
    LET in_sim == ComputeJaccardSimilarity(tool_df[i].input_val,
                                           tool_df[i + 1].input_val)
        out_sim == ComputeJaccardSimilarity(tool_df[i].output_val,
                                            tool_df[i + 1].output_val)
        avg_sim == FDiv(FAdd(in_sim, out_sim), 2 * Unit)
        info_gain == FSub(Unit, avg_sim)
    IN  FSub(Unit, info_gain)

\* lines 78-93: the loop over the first i pairs
RECURSIVE PenaltyLoop(_, _)
PenaltyLoop(tool_df, i) ==
    IF i = 0 THEN [successive_penalty |-> 0, num_sequences |-> 1]
    ELSE LET acc == PenaltyLoop(tool_df, i - 1)
         IN  IF Successive(tool_df, i)
             THEN [acc EXCEPT !.successive_penalty =
                                 FAdd(@, PairPenalty(tool_df, i))]
             ELSE [acc EXCEPT !.num_sequences = @ + 1]

\* a bound on the penalty that counts the calls instead of the pairs
MaxPenalty_TotalCalls(total_calls, num_sequences) ==
    total_calls

\* line 96
MaxPenalty(total_calls, num_sequences) ==
    IF total_calls > 1 THEN total_calls - num_sequences ELSE 1

\* lines 97-98: 1 - penalty / max_penalty, clamped to [0, 1]
ClampedEntropy(successive_penalty, max_penalty) ==
    IF max_penalty <= 0 THEN Unit
    ELSE LET ratio == FDiv(successive_penalty, max_penalty * Unit)
         IN  IF ratio >= Unit THEN 0 ELSE FSub(Unit, ratio)

\* compute_tool_entropy, lines 64-98
ComputeToolEntropy(tool_df) ==
    IF tool_df = <<>> THEN Unit
    ELSE IF ~ \E i \in 1..(Len(tool_df) - 1) : Successive(tool_df, i) THEN Unit
    ELSE LET acc == PenaltyLoop(tool_df, Len(tool_df) - 1)
         IN  ClampedEntropy(acc.successive_penalty,
                            MaxPenalty(Len(tool_df), acc.num_sequences))

EntropyInit ==
    /\ all_tool_sequence_full \in ToolSequences
    /\ entropy_tool \in EntropyTools
    /\ tool_entropy = 0
    /\ entropy_pc = "start"
    /\ AgentAtRest /\ OtherAtRest /\ NotesAtRest /\ TopicsAtRest /\ EvalAtRest /\ ChatAtRest /\ MetricsAtRest

ComputeEntropy ==
    /\ entropy_pc = "start"
    /\ tool_entropy' =
          ComputeToolEntropy(ToolDf(all_tool_sequence_full, entropy_tool))
    /\ entropy_pc' = "done"
    /\ UNCHANGED <<all_tool_sequence_full, entropy_tool>>
    /\ UNCHANGED not_entropy

EntropyNext == ComputeEntropy

SpecEntropy == EntropyInit /\ [][EntropyNext]_vars

\* ============================================================ note tool
\* NoteTool (tools/note_tool.py).  A string is the sequence of its characters;
\* the dict of sections is the sequence of its items in insertion order.
MaxNoteCalls == 3

SectionNames == { <<"A">>, <<"B">> }
NoteTexts == { <<"x">>, <<"y">>, <<"x", " ">> }
SubsectionNames == { <<>>, <<"S">> }
Whitespace == {" ", "\n", "\t"}

SectionIndex(section_name) ==
    { i \in 1..Len(sections) : sections[i].name = section_name }

\* str.strip(), line 252
RECURSIVE LStrip(_)
LStrip(str) ==
    IF str # <<>> /\ Head(str) \in Whitespace THEN LStrip(Tail(str)) ELSE str

RECURSIVE RStrip(_)
RStrip(str) ==
    IF str # <<>> /\ str[Len(str)] \in Whitespace
    THEN RStrip(SubSeq(str, 1, Len(str) - 1)) ELSE str

Strip(str) == RStrip(LStrip(str))

\* lines 250-251: the subsections of one section
RECURSIVE SubsectionsMarkdown(_)
SubsectionsMarkdown(subsections) ==
    IF subsections = <<>> THEN <<>>
    ELSE <<"#", "#", " ">> \o Head(subsections).name \o <<"\n">>
           \o Head(subsections).content \o SubsectionsMarkdown(Tail(subsections))

\* lines 248-251: the loop over the sections
RECURSIVE SectionsMarkdown(_)
SectionsMarkdown(secs) ==
    IF secs = <<>> THEN <<>>
    ELSE <<"#", " ">> \o Head(secs).name \o <<"\n">> \o Head(secs).content
           \o SubsectionsMarkdown(Head(secs).subsections)
           \o SectionsMarkdown(Tail(secs))

\* read_all_notes, lines 247-252
ReadAllNotesText(secs) == Strip(SectionsMarkdown(secs))

NotesInit ==
    /\ sections = <<>>
    /\ note_result = [call |-> "", section_name |-> <<>>, status |-> ""]
    /\ written = <<>>
    /\ markdown = <<>>
    /\ note_calls = 0
    /\ note_pc = "open"
    /\ AgentAtRest /\ OtherAtRest /\ TopicsAtRest /\ EvalAtRest /\ ChatAtRest /\ MetricsAtRest /\ EntropyAtRest

\* create_note_section, lines 50-53
CreateNoteSection(section_name) ==
    /\ note_pc = "open"
    /\ note_calls < MaxNoteCalls
    /\ note_calls' = note_calls + 1
    /\ IF SectionIndex(section_name) # {}
       THEN /\ note_result' = [call |-> "create_note_section",
                               section_name |-> section_name, status |-> "error"]
            /\ UNCHANGED sections
       ELSE /\ sections' = Append(sections, [name |-> section_name,
                                             content |-> <<>>,
                                             subsections |-> <<>>])
            /\ note_result' = [call |-> "create_note_section",
                               section_name |-> section_name, status |-> "success"]
    /\ UNCHANGED <<written, markdown, note_pc>>
    /\ UNCHANGED not_notes

\* write_notes, lines 107-119
WriteNotes(section_name, text, subsection_name) ==
    /\ note_pc = "open"
    /\ note_calls < MaxNoteCalls
    /\ note_calls' = note_calls + 1
    /\ IF sections = <<>>
       THEN /\ note_result' = [call |-> "write_notes",
                               section_name |-> section_name, status |-> "error"]
            /\ UNCHANGED <<sections, written>>
       ELSE IF subsection_name # <<>>
       THEN IF \/ SectionIndex(section_name) = {}
               \/ \A i \in SectionIndex(section_name) :
                     \A j \in 1..Len(sections[i].subsections) :
                        sections[i].subsections[j].name # subsection_name
            THEN /\ note_result' = [call |-> "write_notes",
                                    section_name |-> section_name,
                                    status |-> "error"]
                 /\ UNCHANGED <<sections, written>>
            ELSE /\ sections' =
                      [i \in 1..Len(sections) |->
                         IF sections[i].name = section_name
                         THEN [sections[i] EXCEPT !.subsections =
                                 [j \in 1..Len(@) |->
                                    IF @[j].name = subsection_name
                                    THEN [@[j] EXCEPT !.content =
                                             @ \o text \o <<"\n">>]
                                    ELSE @[j]]]
                         ELSE sections[i]]
                 /\ note_result' = [call |-> "write_notes",
                                    section_name |-> section_name,
                                    status |-> "success"]
                 /\ UNCHANGED written
       ELSE IF SectionIndex(section_name) = {}
            THEN /\ note_result' = [call |-> "write_notes",
                                    section_name |-> section_name,
                                    status |-> "error"]
                 /\ UNCHANGED <<sections, written>>
            ELSE /\ sections' =
                      [i \in 1..Len(sections) |->
                         IF sections[i].name = section_name
                         THEN [sections[i] EXCEPT !.content =
                                  @ \o text \o <<"\n">>]
                         ELSE sections[i]]
                 /\ note_result' = [call |-> "write_notes",
                                    section_name |-> section_name,
                                    status |-> "success"]
                 /\ written' = Append(written, [section_name |-> section_name,
                                                text |-> text])
    /\ UNCHANGED <<markdown, note_pc>>
    /\ UNCHANGED not_notes

\* read_all_notes, lines 247-252
ReadAllNotes ==
    /\ note_pc = "open"
    /\ markdown' = ReadAllNotesText(sections)
    /\ note_pc' = "read"
    /\ UNCHANGED <<sections, note_result, written, note_calls>>
    /\ UNCHANGED not_notes

NotesNext ==
    \/ \E section_name \in SectionNames : CreateNoteSection(section_name)
    \/ \E section_name \in SectionNames, text \in NoteTexts,
          subsection_name \in SubsectionNames :
          WriteNotes(section_name, text, subsection_name)
    \/ ReadAllNotes

SpecNotes == NotesInit /\ [][NotesNext]_vars

\* ===================================================== a second instance
\* main() registers one BaseThinkingAgent per entry of autonomous_agents_cfgs;
\* each factory call runs __init__, which binds the instance's own fields.
\* The runtime runs the handlers of different instances interleaved at their
\* awaits; this section is the other instance, step by step between awaits.
MaxOtherSteps == 3

OtherType == "RAG"                        \* the other instance's self.id.type
OtherTexts == {"other_answer"}            \* plain text its model returns

\* the task the other instance is sent, from a sender of its own
OtherTask ==
    [sender_topic_type |-> "Other", context |-> <<UserMessage(<<"t3">>, "Other")>>]

\* what its model returns to the calls of its reflection pass and main cycle
OtherReflectionBatch(th) ==
    <<FunctionCall(1, IF th = "" THEN "create_thought" ELSE "update_thought",
                   "{thought:p1}")>>
OtherMainBatch == <<FunctionCall(1, "search", "{}")>>

\* __init__, lines 57-63, for the other instance
OtherInit ==
    [chat_history |-> <<>>, sender_agent_topic |-> "", thought |-> "",
     num_tool_calls |-> 0, pc |-> "Idle", task |-> "none", in_loop |-> FALSE,
     context |-> <<>>, llm_result |-> <<>>, published |-> <<>>]

\* this agent is suspended at an await of its handler
Suspended == pc \in {"Reflecting", "AwaitingModel", "ExecutingTools"}

\* one more handler step of the other instance
OtherSteps ==
    /\ other_steps < MaxOtherSteps
    /\ other_steps' = other_steps + 1
    /\ interleaved' = interleaved + (IF Suspended THEN 1 ELSE 0)

\* handle_user_task of the other instance up to the reflection's model call
OtherHandleUserTask(message) ==
    /\ other_agent.pc = "Idle"
    /\ OtherSteps
    /\ other_agent' = [other_agent EXCEPT
            !.sender_agent_topic = ReplyTarget(@, message),
            !.chat_history = @ \o message.context,
            !.context = ThinkPrepare(other_agent.chat_history \o message.context),
            !.pc = "Reflecting", !.task = "user", !.in_loop = FALSE]
    /\ UNCHANGED not_other

\* a handler whose reply target is one attribute shared by all instances
OtherHandleAgentTask_SharedReplyTarget(message) ==
    /\ other_agent.pc = "Idle"
    /\ OtherSteps
    /\ other_agent' = [other_agent EXCEPT
            !.chat_history = MergeOrExtend(@, message),
            !.sender_agent_topic = ReplyTarget(@, message),
            !.pc = "AwaitingModel", !.task = "agent", !.in_loop = FALSE]
    /\ sender_agent_topic' = ReplyTarget(sender_agent_topic, message)
    /\ UNCHANGED <<config, system_message, chat_history, thought, num_tool_calls,
                   pc, task, in_loop, locals, published, trace, outcome,
                   delivered, work>>
    /\ UNCHANGED <<topic_vars, eval_vars, chat_vars, metric_vars, entropy_vars,
                   notes_vars>>

\* handle_agent_task of the other instance up to its model call
OtherHandleAgentTask(message) ==
    /\ other_agent.pc = "Idle"
    /\ OtherSteps
    /\ other_agent' = [other_agent EXCEPT
            !.chat_history = MergeOrExtend(@, message),
            !.sender_agent_topic = ReplyTarget(@, message),
            !.pc = "AwaitingModel", !.task = "agent", !.in_loop = FALSE]
    /\ UNCHANGED not_other

\* its reflection pass returns: run_reflection on its own BaseReflection, then
\* the caller extends its history and goes to the model call
OtherReflects(result) ==
    /\ other_agent.pc = "Reflecting"
    /\ OtherSteps
    /\ LET r == ReflectionLoop(result, 1, other_agent.thought, <<>>)
       IN  other_agent' = [other_agent EXCEPT
               !.thought = r.thought,
               !.chat_history = @ \o <<AssistantCalls(result, OtherType),
                                       FunctionExecutionResultMessage(r.results)>>,
               !.num_tool_calls = IF other_agent.in_loop THEN 0 ELSE @,
               !.context = <<>>,
               !.pc = "AwaitingModel"]
    /\ UNCHANGED not_other

\* its model returns plain text: handle_response, or nothing in handle_agent_task
OtherModelReturnsText(text) ==
    /\ other_agent.pc = "AwaitingModel"
    /\ OtherSteps
    /\ IF other_agent.task = "agent" /\ ~other_agent.in_loop
       THEN other_agent' = [other_agent EXCEPT !.pc = "Idle", !.task = "none"]
       ELSE other_agent' = [other_agent EXCEPT
               !.chat_history = Append(@, AssistantText(<<text>>, OtherType)),
               !.published = Append(@,
                   AgentResponse(OtherType, <<AssistantText(<<text>>, OtherType)>>,
                                 other_agent.sender_agent_topic)),
               !.pc = "Idle", !.task = "none", !.in_loop = FALSE]
    /\ UNCHANGED not_other

\* its model returns a function call: handle_function_calls up to run_json
OtherModelReturnsCalls(batch) ==
    /\ other_agent.pc = "AwaitingModel"
    /\ OtherSteps
    /\ other_agent' = [other_agent EXCEPT
            !.chat_history = Append(@, AssistantCalls(batch, OtherType)),
            !.llm_result = batch,
            !.in_loop = TRUE,
            !.pc = "ExecutingTools"]
    /\ UNCHANGED not_other

\* its tool returns: the rest of handle_function_calls up to the next await
OtherToolReturns ==
    /\ other_agent.pc = "ExecutingTools"
    /\ OtherSteps
    /\ LET history == Append(other_agent.chat_history,
               FunctionExecutionResultMessage(
                   <<RunFoundTool(other_agent.llm_result[1], "ok").result>>))
           reflects == other_agent.num_tool_calls + 1 > 3
       IN  other_agent' = [other_agent EXCEPT
               !.num_tool_calls = @ + 1,
               !.chat_history = history,
               !.llm_result = <<>>,
               !.context = IF reflects THEN ThinkPrepare(history) ELSE <<>>,
               !.pc = IF reflects THEN "Reflecting" ELSE "AwaitingModel"]
    /\ UNCHANGED not_other

\* what this agent's model returns while the two instances run side by side
PairCreateBatch == <<FunctionCall(1, "create_thought", "{thought:p1}")>>
PairUpdateBatch == <<FunctionCall(1, "update_thought", "{thought:p1}")>>

\* both instances constructed, nothing delivered to either
PairInit ==
    /\ AgentInit
    /\ tools = <<"search">>
    /\ communication_tools = [resolved |-> FALSE, names |-> <<>>]
    /\ broadcast_topic = "BCAST"
    /\ other_agent = OtherInit
    /\ other_steps = 0
    /\ interleaved = 0
    /\ TopicsAtRest /\ EvalAtRest /\ ChatAtRest /\ MetricsAtRest /\ EntropyAtRest /\ NotesAtRest

PairNext ==
    \/ \E m \in TaskMessages : HandleUserTask(m)
    \/ \E m \in TaskMessages : HandleAgentTask(m)
    \/ ReflectCreate(PairCreateBatch)
    \/ ReflectGetUpdate(PairUpdateBatch)
    \/ \E t \in ModelTexts : ModelReturnsText(t)
    \/ ModelReturnsCalls(OtherMainBatch)
    \/ ExecuteCall("ok")
    \/ FinishBatch
    \/ OtherHandleUserTask(OtherTask)
    \/ OtherHandleAgentTask(OtherTask)
    \/ OtherReflects(OtherReflectionBatch(other_agent.thought))
    \/ \E t \in OtherTexts : OtherModelReturnsText(t)
    \/ OtherModelReturnsCalls(OtherMainBatch)
    \/ OtherToolReturns

SpecPair == PairInit /\ [][PairNext]_vars

\* ================================================================ claims
\* the UserTask and AgentTask deliveries so far, in order
TaskDeliveries ==
    SelectSeq(delivered, LAMBDA d : d.kind \in {"UserTask", "AgentTask"})

LastTask == TaskDeliveries[Len(TaskDeliveries)]

\* C1: whenever a main-cycle model call of a task handler returns plain text,
\* the handler appends that text as one Assistant entry, publishes exactly one
\* AgentResponse carrying it to the recorded reply target, and returns to Idle.
\* (Stated for every handler; handle_agent_task violates it for a first answer.)
C1_TextAnswerIsPublished ==
    [][ (pc = "AwaitingModel" /\ pc' = "Idle" /\ outcome' # "raised") =>
          \E t \in ModelTexts :
             /\ chat_history' = Append(chat_history, AssistantText(<<t>>, SelfType))
             /\ published' = Append(published,
                    AgentResponse(SelfType, <<AssistantText(<<t>>, SelfType)>>,
                                  sender_agent_topic)) ]_vars

\* C2: in every reachable state the recorded reply target is the sender topic
\* of the most recently delivered UserTask or AgentTask (the empty string
\* before any task); so each delivery overwrites it and nothing else changes it.
C2_ReplyTargetIsLastSender ==
    IF TaskDeliveries = <<>>
    THEN sender_agent_topic = ""
    ELSE sender_agent_topic = LastTask.sender_topic_type

\* two tasks from different senders have been delivered, the second has
\* replaced the first as reply target, and a reply has gone to it
C2_Witness ==
    /\ Len(TaskDeliveries) = 2
    /\ TaskDeliveries[1].sender_topic_type = "User"
    /\ TaskDeliveries[2].sender_topic_type = "Peer"
    /\ sender_agent_topic = "Peer"
    /\ pc = "Idle"
    /\ outcome = "replied"

\* the call the resolver is about to process
CurrentCall == llm_result[idx]
AtCall == pc = "ExecutingTools" /\ idx <= Len(llm_result)
LastEntry(h) == h[Len(h)]

\* C3: every step that ends the resolution of a batch appends exactly one
\* FunctionResult entry to the chat history, holding one result per call of the
\* batch, the i-th result carrying the i-th call's id and name.
\* (Stated for every batch; a malformed argument string or a cancellation ends
\* the batch with no entry appended.)
C3_OneResultPerCall ==
    [][ (pc = "ExecutingTools" /\ pc' # "ExecutingTools") =>
          /\ Len(chat_history') = Len(chat_history) + 1
          /\ SubSeq(chat_history', 1, Len(chat_history)) = chat_history
          /\ LastEntry(chat_history').type = "FunctionExecutionResultMessage"
          /\ Len(LastEntry(chat_history').results) = Len(llm_result)
          /\ \A i \in 1..Len(llm_result) :
                /\ LastEntry(chat_history').results[i].call_id = llm_result[i].id
                /\ LastEntry(chat_history').results[i].name = llm_result[i].name ]_vars

\* C4: resolving a call whose name is in neither tool pool never raises: the
\* step appends an is_error result naming the tool and the resolver goes on
\* with the next call.  (Stated for every such call; with a malformed argument
\* string json.loads raises before the lookup.)
C4_UnknownToolNeverRaises ==
    [][ (AtCall /\ ~InLocalTools(CurrentCall.name)
                /\ ~InCommunicationTools(CurrentCall.name)) =>
          /\ pc' = "ExecutingTools"
          /\ idx' = idx + 1
          /\ Len(tool_results') = Len(tool_results) + 1
          /\ LastEntry(tool_results').is_error
          /\ LastEntry(tool_results').call_id = CurrentCall.id
          /\ \E k \in 1..Len(LastEntry(tool_results').content) :
                LastEntry(tool_results').content[k] = CurrentCall.name ]_vars

\* C5: when a found tool (local or communication) raises an exception, the
\* step appends the result {name, content = str(e), call_id, is_error = true}
\* to tool_results and the resolver goes on with the next call: the handler is
\* not ended and the chat history is not touched by the exception.
C5_ToolExceptionBecomesResult ==
    [][ (trace' = Append(trace, "tool_raised")) =>
          /\ AtCall
          /\ InLocalTools(CurrentCall.name) \/ InCommunicationTools(CurrentCall.name)
          /\ tool_results' = Append(tool_results,
                FunctionExecutionResult(CurrentCall.name, <<"boom">>,
                                        CurrentCall.id, TRUE))
          /\ pc' = "ExecutingTools"
          /\ idx' = idx + 1
          /\ llm_result' = llm_result
          /\ outcome' = outcome
          /\ chat_history' = chat_history ]_vars

\* the first tool of a batch of two raised, the second call was still
\* resolved, the results entry was appended and the next model call is awaited
C5_Witness ==
    /\ pc = "AwaitingModel"
    /\ in_loop
    /\ LastEntry(chat_history).type = "FunctionExecutionResultMessage"
    /\ Len(LastEntry(chat_history).results) = 2
    /\ LastEntry(chat_history).results[1] =
          FunctionExecutionResult("search", <<"boom">>, 1, TRUE)

\* C6: resolving a call whose argument string is not valid JSON appends an
\* is_error result for that call and the resolver goes on with the next call.
\* (Stated as claimed; json.loads at line 229 is outside every try block.)
C6_MalformedArgumentsBecomeResult ==
    [][ (AtCall /\ ~JsonLoads(CurrentCall.arguments).ok) =>
          /\ pc' = "ExecutingTools"
          /\ idx' = idx + 1
          /\ Len(tool_results') = Len(tool_results) + 1
          /\ LastEntry(tool_results').is_error
          /\ LastEntry(tool_results').call_id = CurrentCall.id ]_vars

\* C7: a cancellation observed while a tool call is executing appends an
\* is_error result for that call and the resolver goes on with the next call.
\* (Stated as claimed; "except Exception" does not catch CancelledError.)
C7_CancellationBecomesResult ==
    [][ (trace' = Append(trace, "tool_cancelled")) =>
          /\ pc' = "ExecutingTools"
          /\ idx' = idx + 1
          /\ Len(tool_results') = Len(tool_results) + 1
          /\ LastEntry(tool_results').is_error
          /\ LastEntry(tool_results').call_id = CurrentCall.id ]_vars

\* C8: when the first message of an agent without tools is a UserTask and the
\* handler replies after a reflection turn of one call and no tool batch, then
\* the collaborator calls were, in order, the model call restricted to
\* create_thought, the main model call, the publication of the response; the
\* run published exactly one AgentResponse, to the task's sender topic, with
\* the text; and the history is the task, the create_thought exchange and one
\* Assistant entry holding that text.
C8_EndToEndOrder ==
    (/\ pc = "Idle"
     /\ outcome = "replied"
     /\ tools = <<>>
     /\ communication_tools.names = <<>>
     /\ Len(delivered) = 1
     /\ delivered[1].kind = "UserTask"
     /\ work = 1)
    =>
    (/\ trace = (IF broadcast_topic # "" THEN <<"publish_broadcast">> ELSE <<>>) \o
                <<"reflect_model_create_thought", "main_model", "publish_response">>
     /\ Len(SelectSeq(published, LAMBDA m : m.kind = "AgentResponse")) = 1
     /\ LastEntry(published).kind = "AgentResponse"
     /\ LastEntry(published).topic = delivered[1].sender_topic_type
     /\ LastEntry(published).context = <<LastEntry(chat_history)>>
     /\ Len(chat_history) = 4
     /\ chat_history[1] = delivered[1].context[1]
     /\ chat_history[2].kind = "calls"
     /\ chat_history[2].calls[1].name = "create_thought"
     /\ chat_history[3].type = "FunctionExecutionResultMessage"
     /\ chat_history[4].type = "AssistantMessage"
     /\ chat_history[4].kind = "text"
     /\ chat_history[4].text \in {<<t>> : t \in ModelTexts})

\* the scenario itself: the UserTask from "User" has been answered
C8_Witness ==
    /\ pc = "Idle"
    /\ outcome = "replied"
    /\ tools = <<>>
    /\ communication_tools.names = <<>>
    /\ Len(delivered) = 1
    /\ delivered[1].kind = "UserTask"
    /\ delivered[1].sender_topic_type = "User"
    /\ work = 1
    /\ thought = "p1"
    /\ LastEntry(published).topic = "User"
    /\ LastEntry(chat_history).text = <<"answer">>

\* C9 as claimed: the chat history is append-only, every step keeps the
\* entries it had, unmodified and in place.
C9_AppendOnly ==
    [][ /\ Len(chat_history') >= Len(chat_history)
        /\ SubSeq(chat_history', 1, Len(chat_history)) = chat_history ]_vars

\* C9 as amended: the chat history never shrinks, all entries but the last are
\* kept unmodified, and the last entry is kept unmodified except when an
\* AgentTask is delivered while it is a user entry: then the task's text is
\* appended to that entry's text and no entry is added.
C9_AppendOrMerge ==
    [][ /\ Len(chat_history') >= Len(chat_history)
        /\ \A i \in 1..(Len(chat_history) - 1) : chat_history'[i] = chat_history[i]
        /\ (chat_history # <<>>
            /\ chat_history'[Len(chat_history)] # LastEntry(chat_history)) =>
              /\ Len(delivered') = Len(delivered) + 1
              /\ LastEntry(delivered').kind = "AgentTask"
              /\ LastEntry(chat_history).type = "UserMessage"
              /\ Len(chat_history') = Len(chat_history)
              /\ LastEntry(chat_history') =
                    [LastEntry(chat_history) EXCEPT
                        !.text = @ \o LastEntry(LastEntry(delivered').context).text]
      ]_vars

\* an AgentTask has been merged into the user entry of an earlier task
C9_Witness ==
    /\ Len(delivered) = 2
    /\ delivered[2].kind = "AgentTask"
    /\ Len(chat_history) = 1
    /\ chat_history[1].type = "UserMessage"
    /\ delivered[1].sender_topic_type = "User"
    /\ delivered[2].sender_topic_type = "Peer"
    /\ chat_history[1].text = <<"t1", "t2">>

UserTaskDeliveries == SelectSeq(delivered, LAMBDA d : d.kind = "UserTask")
Broadcasts == SelectSeq(published, LAMBDA m : m.kind = "BroadCastMessage")

\* C10: the BroadcastMessages published so far are, in order, one per
\* delivered UserTask, each carrying that task's context to the configured
\* broadcast topic; without a broadcast topic none is ever published.  So
\* AgentTasks, tool batches, reflection turns and replies publish none.
C10_OneBroadcastPerUserTask ==
    IF broadcast_topic = ""
    THEN Broadcasts = <<>>
    ELSE /\ Len(Broadcasts) = Len(UserTaskDeliveries)
         /\ \A i \in 1..Len(Broadcasts) :
               /\ Broadcasts[i].context = UserTaskDeliveries[i].context
               /\ Broadcasts[i].topic = broadcast_topic
               /\ Broadcasts[i].sender_topic_type = SelfType

\* with a broadcast topic: a UserTask and an AgentTask were handled, the
\* AgentTask through a tool batch to its reply, and one broadcast was published
C10_Witness ==
    /\ broadcast_topic = "BCAST"
    /\ Len(delivered) = 2
    /\ delivered[1].kind = "UserTask"
    /\ delivered[2].kind = "AgentTask"
    /\ work = 3
    /\ pc = "Idle"
    /\ outcome = "replied"
    /\ Len(Broadcasts) = 1
    /\ Len(published) = 3

\* the last message the runtime delivered
LastDelivery == delivered[Len(delivered)]

\* C11: a step that delivers a BroadCastMessage sent by another agent appends
\* the content of the message to the system message and changes nothing else:
\* chat history, reply target, thought, tool-call counter and configuration
\* are unchanged, nothing is published and the agent stays Idle; when the
\* sender is the receiving agent itself the system message is unchanged too.
C11_BroadcastFrame ==
    [][ (Len(delivered') = Len(delivered) + 1
           /\ delivered'[Len(delivered')].kind = "BroadCastMessage")
        => LET m == delivered'[Len(delivered')] IN
           /\ system_message' =
                 IF m.sender_topic_type # SelfType
                 THEN system_message \o m.context[1].text
                 ELSE system_message
           /\ UNCHANGED <<chat_history, sender_agent_topic, thought,
                          num_tool_calls, published, config, pc, task, in_loop,
                          locals, trace, outcome>> ]_vars

\* after a UserTask was answered, a broadcast of a peer and then one of the
\* agent itself were delivered: only the first reached the system message
C11_Witness ==
    /\ Len(delivered) = 3
    /\ delivered[1].kind = "UserTask"
    /\ delivered[2].kind = "BroadCastMessage"
    /\ delivered[2].sender_topic_type = "Peer"
    /\ delivered[3].kind = "BroadCastMessage"
    /\ delivered[3].sender_topic_type = SelfType
    /\ system_message = <<"SYS", "t2">>
    /\ chat_history # <<>>
    /\ sender_agent_topic = "User"

\* the subscriptions of one agent type, in add order
SubscriptionsOf(agent_type) ==
    SelectSeq(subscriptions, LAMBDA sub : sub.agent_type = agent_type)

C13_AllOrNothing ==
    /\ run_pc = "idle" =>
          \A e \in 1..Len(evaluations) : evaluations[e].status # "IN_PROGRESS"
    /\ \A e \in 1..Len(evaluations) :
          evaluations[e].status = "FAILED" =>
             ~ \E r \in db_rows : r.run = e

\* the span ids of the AGENT spans of a span table
AgentSpanIds(df) == { df[i].span_id : i \in { i \in 1..Len(df) :
                                                df[i].span_kind = "AGENT" } }

\* C14: the trajectories a run works on come from its own span table only:
\* while a run is past curation every invocation entry of the dict is an AGENT
\* span of the run's table, and every committed AgentTrace row of an
\* evaluation is an AGENT span of the table of that evaluation's trace.
\* (Violated: the dict of the one service object is never emptied.)
C14_OnlyOwnSpans ==
    /\ run_pc \in Running \ {"curate"} =>
          \A x \in agent_trajectories_dict :
             x.agent_type # "" => x.key \in AgentSpanIds(trace_df)
    /\ \A r \in db_rows :
          r.table = "AgentTrace" =>
             r.key \in AgentSpanIds(GetPxTraceSpans(evaluations[r.run].trace_id))

\* the rows of a span table that are children of a span, of one kind
ChildRows(df, span_id, span_kind) ==
    { df[i] : i \in { i \in 1..Len(df) : /\ df[i].parent_id = span_id
                                          /\ df[i].span_kind = span_kind } }

Ordered(rows) ==
    \A i, j \in 1..Len(rows) : i < j => rows[i].start_time <= rows[j].start_time

Elements(rows) == { rows[i] : i \in 1..Len(rows) }

\* C15: after curation of a span table by a fresh service, every AGENT span
\* has exactly one entry, under its name and span id; the entry's completion
\* spans are exactly the LLM spans whose parent is that span and its tool
\* spans exactly the TOOL spans whose parent is that span, each without
\* repetition and in start-time order; there are no other entries, so two
\* invocations of one agent name are two entries, and no LLM or TOOL span is
\* in two entries.
C15_OneEntryPerAgentSpan ==
    run_pc = "tool_metrics" =>
       /\ \A i \in 1..Len(trace_df) :
             trace_df[i].span_kind = "AGENT" =>
                LET es == { x \in agent_trajectories_dict :
                              /\ x.agent = trace_df[i].name
                              /\ x.key = trace_df[i].span_id }
                IN  /\ Cardinality(es) = 1
                    /\ \A x \in es :
                          /\ Elements(x.completion_spans)
                               = ChildRows(trace_df, x.key, "LLM")
                          /\ Elements(x.tool_spans)
                               = ChildRows(trace_df, x.key, "TOOL")
                          /\ Len(x.completion_spans)
                               = Cardinality(Elements(x.completion_spans))
                          /\ Len(x.tool_spans)
                               = Cardinality(Elements(x.tool_spans))
                          /\ Ordered(x.completion_spans)
                          /\ Ordered(x.tool_spans)
       /\ Cardinality(agent_trajectories_dict)
            = Cardinality(AgentSpanIds(trace_df))
       /\ \A x, y \in agent_trajectories_dict :
             x # y =>
                Elements(x.completion_spans \o x.tool_spans)
                  \cap Elements(y.completion_spans \o y.tool_spans) = {}

\* two invocations of Triage were curated: the first owns two completions
\* that the table lists against their start order, the second owns none
C15_Witness ==
    /\ run_pc = "tool_metrics"
    /\ trace_df[1].span_kind = "AGENT" /\ trace_df[1].name = "Triage"
    /\ trace_df[2].span_kind = "AGENT" /\ trace_df[2].name = "Triage"
    /\ Cardinality(agent_trajectories_dict) = 2
    /\ \E x \in agent_trajectories_dict :
          /\ x.key = "s1"
          /\ Len(x.completion_spans) = 2
          /\ x.completion_spans[1].span_id = "s4"
          /\ x.completion_spans[2].span_id = "s3"
    /\ \E y \in agent_trajectories_dict :
          /\ y.key = "s2"
          /\ y.completion_spans = <<>>
          /\ y.tool_spans = <<>>

\* the steps that precede step t of the result within its user turn: no
\* user message lies between them and t
PriorResponses(t) ==
    SelectSeq(steps, LAMBDA u :
        /\ u.position < steps[t].position
        /\ \A i \in u.position..steps[t].position : chat[i] # "user")

Min(a, b) == IF a <= b THEN a ELSE b

\* C16: for every step of the result of parse_chat_n with window size N: when
\* no response precedes it since the enclosing user turn, previous_responses
\* is null; when k >= 1 responses precede it, previous_responses is a string
\* (not null) with exactly min(N, k) numbered entries, the texts of the most
\* recent min(N, k) of those responses in chronological order.
\* (Violated for N = 0: the slice [-0:] keeps every response.)
C16_PreviousResponsesWindow ==
    parse_pc = "done" =>
       \A t \in 1..Len(steps) :
          LET prior == PriorResponses(t)
              k == Len(prior)
              m == Min(n_previous, k)
              pr == steps[t].previous_responses
          IN  IF k = 0
              THEN pr.is_null
              ELSE /\ ~ pr.is_null
                   /\ Len(pr.entries) = m
                   /\ \A j \in 1..m :
                         pr.entries[j].text = prior[k - m + j].current_response

\* C17: for a raw score s and confidences c1 <= c2 of [0, 1]: at confidence 0
\* the calibrated score is the midpoint of the scale exactly; when s is above
\* the midpoint and c1 < c2, calibrated(s, c2) >= calibrated(s, c1); and a
\* calibrated score lies within [min_score, max_score].
\* (Violated: in floating point the sum c*s + (1-c)*mid is not monotone in c.)
C17_Calibration ==
    metric_pc = "calibrated" =>
       /\ conf_lo = 0 => cal_lo = Midpoint
       /\ (raw_score > Midpoint /\ conf_lo < conf_hi) => cal_hi >= cal_lo
       /\ min_score * Unit <= cal_lo /\ cal_lo <= max_score * Unit
       /\ min_score * Unit <= cal_hi /\ cal_hi <= max_score * Unit

\* the scored dimensions of the step that was classified
Scored == { i \in 1..Len(score_data) : score_data[i].scored }

\* C18: the label of a classified step is "low" if some scored dimension has
\* confidence above 0.8 and calibrated score below 2.5; else "high" if the
\* aggregated score is above 3.5; else "medium" if it is above 2.5; else
\* "low".  The aggregated score is the mean of the calibrated scores of the
\* scored dimensions, null when there is none, and then the label is "low".
C18_QualityLabel ==
    metric_pc = "classified" =>
       LET cal(i) == Calibrate(score_data[i].score, score_data[i].confidence)
           low_rule == \E i \in Scored :
                          /\ AboveLowConfFlag(score_data[i].confidence)
                          /\ cal(i) < low_quality_cutoff
           agg == step_score_aggregated
       IN  /\ agg.is_null <=> Scored = {}
           /\ ~ agg.is_null =>
                 agg.value = FDiv(FloatSum(CalibratedScores(score_data)),
                                  Cardinality(Scored) * Unit)
           /\ Len(CalibratedScores(score_data)) = Cardinality(Scored)
           /\ step_quality =
                 IF low_rule THEN "low"
                 ELSE IF agg.is_null THEN "low"
                 ELSE IF agg.value > high_quality_cutoff THEN "high"
                 ELSE IF agg.value > low_quality_cutoff THEN "medium"
                 ELSE "low"

\* a step whose aggregated score is above 3.5 is labelled "low" because one
\* dimension was scored 2 with a confidence above 0.8
C18_Witness ==
    /\ metric_pc = "classified"
    /\ score_data[1] = [scored |-> TRUE, score |-> 2 * Unit,
                        confidence |-> (13 * Unit) \div 16]
    /\ score_data[2] = [scored |-> TRUE, score |-> 5 * Unit, confidence |-> Unit]
    /\ ~ step_score_aggregated.is_null
    /\ step_score_aggregated.value > high_quality_cutoff
    /\ step_quality = "low"

\* the positions of the full sequence where the tool is called twice in a row
AdjacentPairs ==
    { i \in 1..(Len(all_tool_sequence_full) - 1) :
        /\ all_tool_sequence_full[i].tool_name = entropy_tool
        /\ all_tool_sequence_full[i + 1].tool_name = entropy_tool }

\* C19: the entropy computed for a tool is 1.0 when no two calls of the tool
\* are adjacent in the agent's full call sequence; it is 0.0 when there are
\* adjacent pairs and each of them has equal inputs and equal outputs; and it
\* is always within [0, 1].
C19_ToolEntropy ==
    entropy_pc = "done" =>
       /\ AdjacentPairs = {} => tool_entropy = Unit
       /\ ( /\ AdjacentPairs # {}
            /\ \A i \in AdjacentPairs :
                  /\ all_tool_sequence_full[i].input_val
                       = all_tool_sequence_full[i + 1].input_val
                  /\ all_tool_sequence_full[i].output_val
                       = all_tool_sequence_full[i + 1].output_val )
          => tool_entropy = 0
       /\ 0 <= tool_entropy /\ tool_entropy <= Unit

\* three identical calls of search in a row: entropy 0.0
C19_Witness ==
    /\ entropy_pc = "done"
    /\ entropy_tool = "search"
    /\ Len(all_tool_sequence_full) = 3
    /\ \A i \in 1..3 :
          all_tool_sequence_full[i] =
             [tool_name |-> "search", input_val |-> <<"x", "y">>,
              output_val |-> <<"r">>]
    /\ tool_entropy = 0

\* the first position at or after from where pattern occurs in str, or 0
RECURSIVE FindFrom(_, _, _)
FindFrom(str, pattern, from) ==
    IF from + Len(pattern) - 1 > Len(str) THEN 0
    ELSE IF SubSeq(str, from, from + Len(pattern) - 1) = pattern THEN from
    ELSE FindFrom(str, pattern, from + 1)

\* the texts successfully written to one section, in order
FragmentsOf(section_name) ==
    LET mine == SelectSeq(written, LAMBDA w : w.section_name = section_name)
    IN  [i \in 1..Len(mine) |-> mine[i].text]

\* the fragments occur in str in order, one after the other, from position
\* from on and before position limit
RECURSIVE InOrder(_, _, _, _)
InOrder(str, fragments, from, limit) ==
    IF fragments = <<>> THEN TRUE
    ELSE LET at == FindFrom(str, Head(fragments), from)
         IN  /\ at # 0
             /\ at + Len(Head(fragments)) <= limit
             /\ InOrder(str, Tail(fragments), at + Len(Head(fragments)), limit)

\* where the section's part of the text starts and where the next heading is
UnderOwnHeading(str, section_name) ==
    LET heading == <<"#", " ">> \o section_name
        at == FindFrom(str, heading, 1)
        next == IF at = 0 THEN 0 ELSE FindFrom(str, <<"#", " ">>, at + 1)
        limit == IF next = 0 THEN Len(str) + 1 ELSE next
    IN  /\ at # 0
        /\ InOrder(str, FragmentsOf(section_name), at + Len(heading), limit)

\* C20: what read_all_notes returns contains every fragment whose write
\* succeeded, the fragments of a section in the order they were written and
\* under the section's own heading; and a write_notes to a section that does
\* not exist returns an error and leaves the notes as they were.
C20_NoteRoundTrip ==
    /\ [](note_pc = "read" =>
            \A section_name \in SectionNames :
               FragmentsOf(section_name) # <<>> =>
                  UnderOwnHeading(markdown, section_name))
    /\ [][ ( /\ note_calls' = note_calls + 1
             /\ note_result'.call = "write_notes"
             /\ SectionIndex(note_result'.section_name) = {} )
           => /\ note_result'.status = "error"
              /\ sections' = sections ]_vars


ReflectEntries == {"reflect_model_create_thought", "reflect_model_get_update"}

\* the position of the last reflection turn in a handler's calls, 0 if none
LastReflect(tr) ==
    LET at == { i \in 1..Len(tr) : tr[i] \in ReflectEntries }
    IN  IF at = {} THEN 0 ELSE CHOOSE i \in at : \A j \in at : j <= i

\* the tool-call batches completed since the last reflection turn
BatchesSince(tr) ==
    Cardinality({ i \in (LastReflect(tr) + 1)..Len(tr) : tr[i] = "results_appended" })

\* C21: in a UserTask handler the first main model call follows a reflection
\* pass; and in the tool loop of the handler a reflection pass starts after a
\* batch exactly when the batch is the third since the previous reflection
\* pass.  (Stated as claimed; the code compares the number of calls with 3.)
C21_ReflectionCadence ==
    /\ []( (task = "user" /\ pc = "AwaitingModel" /\ ~in_loop) =>
              /\ trace # <<>>
              /\ trace[Len(trace)] \in ReflectEntries )
    /\ [][ (task = "user" /\ pc = "ExecutingTools"
              /\ trace' = Append(trace, "results_appended"))
           => (pc' = "Reflecting" <=> BatchesSince(trace') = 3) ]_vars


\* a reflection pass returns: its entries are appended to the chat history
PassReturns == pc = "Reflecting" /\ chat_history' # chat_history

\* C22: a step that resolves a function call adds one to the tool-call
\* counter, a step that ends a reflection pass (on UserTask entry or in the
\* tool loop) leaves it at zero, and every other step leaves it unchanged.
\* (Stated as claimed; handle_user_task does not reset the counter.)
C22_ToolCallCounter ==
    [][ /\ AtCall => num_tool_calls' = num_tool_calls + 1
        /\ PassReturns => num_tool_calls' = 0
        /\ (~AtCall /\ ~PassReturns) => num_tool_calls' = num_tool_calls ]_vars


\* a step that delivers a UserTask or an AgentTask
TaskDelivered ==
    /\ Len(delivered') = Len(delivered) + 1
    /\ delivered'[Len(delivered')].kind \in {"UserTask", "AgentTask"}

\* C23: when a UserTask or an AgentTask is delivered while the chat history
\* ends in a user entry, the task's content is merged into that entry and the
\* history keeps its length; otherwise the task's context is appended.
\* (Stated as claimed; handle_user_task always appends.)
C23_MergeIntoEndingUserEntry ==
    [][ TaskDelivered =>
          LET m == delivered'[Len(delivered')] IN
          IF chat_history # <<>> /\ LastEntry(chat_history).type = "UserMessage"
          THEN /\ Len(chat_history') = Len(chat_history)
               /\ chat_history' =
                     [chat_history EXCEPT ![Len(chat_history)].text =
                         @ \o LastEntry(m.context).text]
          ELSE chat_history' = chat_history \o m.context ]_vars


\* every argument string of the batch is valid JSON
WellFormed(calls) == \A i \in 1..Len(calls) : JsonLoads(calls[i].arguments).ok

\* the thought argument of the last call of the batch that carries one
RECURSIVE LastThoughtArgument(_, _)
LastThoughtArgument(calls, th) ==
    IF calls = <<>> THEN th
    ELSE LastThoughtArgument(
            Tail(calls),
            IF Head(calls).name # "get_thought"
               /\ "thought" \in JsonLoads(Head(calls).arguments).keys
            THEN JsonLoads(Head(calls).arguments).thought ELSE th)

C25_GetThoughtExchangeInHistory ==
    [][ (pc = "Reflecting" /\ thought # "") =>
           \A b \in GetUpdateBatches(MaxWork - work) :
              (ReflectGetUpdate(b) /\ WellFormed(b) /\ GetThoughtCalled(b)) =>
                 /\ pc' = "Reflecting"
                 /\ Len(chat_history') = Len(chat_history) + 2
                 /\ SubSeq(chat_history', 1, Len(chat_history)) = chat_history
                 /\ chat_history'[Len(chat_history) + 1] = AssistantCalls(b, SelfType)
                 /\ chat_history'[Len(chat_history) + 2].type
                       = "FunctionExecutionResultMessage"
      ]_vars


HasThinkingPrompt(entry) ==
    \E k \in 1..Len(entry.text) : entry.text[k] = ThinkingPrompt

\* C27: the thinking instruction is in no entry of the live chat history,
\* while the list a starting pass works on is the live history with the
\* instruction merged into its last user entry or added as a new user entry;
\* and a step of a reflection pass keeps every entry of the live history and
\* appends nothing, or, when the pass returns, the two entries it returns.
C27_ReflectionOnDeepCopy ==
    /\ [](\A i \in 1..Len(chat_history) : ~HasThinkingPrompt(chat_history[i]))
    /\ [][ (pc # "Reflecting" /\ pc' = "Reflecting") =>
              /\ context' = ThinkPrepare(chat_history')
              /\ HasThinkingPrompt(context'[Len(context')]) ]_vars
    /\ [][ pc = "Reflecting" =>
              /\ SubSeq(chat_history', 1, Len(chat_history)) = chat_history
              /\ \/ chat_history' = chat_history
                 \/ /\ pc' # "Reflecting"
                    /\ Len(chat_history') = Len(chat_history) + 2
                    /\ chat_history'[Len(chat_history) + 1].kind = "calls"
                    /\ chat_history'[Len(chat_history) + 1].calls[1].name
                          \in {"create_thought", "get_thought", "update_thought"}
                    /\ chat_history'[Len(chat_history) + 2].kind = "results" ]_vars

\* a pass started in the tool loop, on a history ending in a result entry,
\* has returned: the live history ends with its two entries after that
\* result entry and the main model call is awaited
C27_Witness ==
    /\ pc = "AwaitingModel"
    /\ in_loop
    /\ task = "user"
    /\ trace[Len(trace)] \in ReflectEntries
    /\ Len(chat_history) >= 3
    /\ chat_history[Len(chat_history) - 2].kind = "results"
    /\ chat_history[Len(chat_history) - 1].kind = "calls"
    /\ LastEntry(chat_history).kind = "results"


\* a step that evaluates the available_tools expression of a main-cycle model
\* call: on AgentTask entry, after the reflection pass, after a tool batch
ComputesAvailableTools ==
    \/ pc = "Idle" /\ TaskDelivered /\ delivered'[Len(delivered')].kind = "AgentTask"
    \/ PassReturns
    \/ pc = "ExecutingTools" /\ trace' = Append(trace, "results_appended")
                             /\ pc' # "Reflecting"

\* C28: every evaluation of the tool list for a main-cycle model call yields
\* the local tools followed by the communication tools, and the model call
\* is made with it, whether or not the agent has communication tools and
\* whether or not they have been resolved.
\* (Stated as claimed; iterating the resolved dict yields names, not tools.)
C28_OfferedTools ==
    [][ ComputesAvailableTools =>
          /\ ~AvailableTools(communication_tools').raised
          /\ AvailableTools(communication_tools').schemas
                = tools \o communication_tools'.names
          /\ pc' = "AwaitingModel" ]_vars


\* the assistant turns of the transcript that yield a step: every plain
\* assistant turn, and every tool-call turn directly followed by a tool turn
StepTurns ==
    SelectSeq([i \in 1..Len(chat) |-> i],
              LAMBDA i : \/ chat[i] = "assistant"
                         \/ /\ chat[i] = "assistant_calls"
                            /\ i < Len(chat)
                            /\ chat[i + 1] = "tool")

\* the last position of the run of tool turns that starts right after i
RunEnd(i) ==
    CHOOSE k \in i..Len(chat) :
       /\ \A m \in (i + 1)..k : chat[m] = "tool"
       /\ k = Len(chat) \/ chat[k + 1] # "tool"

\* C30: the steps of parse_chat_n are, in transcript order, one for each
\* assistant turn, except the tool-call turns not directly followed by a tool
\* turn, which yield none; the current_response of a kept tool-call turn is
\* made of its calls and of the tool turns that directly follow it, up to the
\* first turn that is not a tool turn.
C30_OneStepPerAssistantTurn ==
    parse_pc = "done" =>
       /\ Len(steps) = Len(StepTurns)
       /\ \A t \in 1..Len(steps) :
             LET i == StepTurns[t] IN
             /\ steps[t].position = i
             /\ chat[i] = "assistant" =>
                   steps[t].current_response = [calls |-> 0, results |-> <<i>>]
             /\ chat[i] = "assistant_calls" =>
                   steps[t].current_response =
                      [calls |-> i,
                       results |-> [k \in 1..(RunEnd(i) - i) |-> i + k]]

\* a tool-call turn without a result is dropped, the next one is kept with
\* its two results, and the plain answer after them is a step too
C30_Witness ==
    /\ parse_pc = "done"
    /\ chat = <<"assistant_calls", "assistant_calls", "tool", "tool">>
    /\ Len(steps) = 1
    /\ steps[1].current_response = [calls |-> 2, results |-> <<3, 4>>]


\* a step of the other instance
OtherActs == other_agent' # other_agent

\* this agent publishes its reply
Replies == /\ Len(published') = Len(published) + 1
           /\ LastEntry(published').kind = "AgentResponse"

\* C29: a handler step of another agent instance, taken while this agent is
\* suspended at a model call or a tool call, leaves this agent's chat history,
\* reply target, thought and tool-call counter unchanged; and the AgentResponse
\* this agent publishes goes to the sender topic of the task it was handling
\* and carries the text its own model returned, under its own type.
C29_OtherAgentInterleaving ==
    [][ /\ (OtherActs /\ Suspended) =>
              UNCHANGED <<chat_history, sender_agent_topic, thought, num_tool_calls>>
        /\ Replies =>
              /\ LastEntry(published').topic = LastTask.sender_topic_type
              /\ LastEntry(published').sender_topic_type = SelfType
              /\ \E t \in ModelTexts :
                    LastEntry(published').context = <<AssistantText(<<t>>, SelfType)>>
              /\ LastEntry(chat_history') = LastEntry(published').context[1] ]_vars

\* this agent has replied to its sender after the other instance took a task
\* from another sender, reflected and answered, all while this agent was
\* suspended in its handler
C29_Witness ==
    /\ outcome = "replied"
    /\ pc = "Idle"
    /\ interleaved = other_steps
    /\ other_steps >= 3
    /\ other_agent.sender_agent_topic = "Other"
    /\ other_agent.thought # ""
    /\ thought = ""
    /\ Len(other_agent.published) = 1
    /\ LastEntry(published).kind = "AgentResponse"
    /\ LastEntry(published).topic = LastTask.sender_topic_type
    /\ LastEntry(published).topic # other_agent.sender_agent_topic

\* the assistant turns of the transcript up to and including position i
AssistantTurnsUpTo(i) ==
    SelectSeq([j \in 1..i |-> j],
              LAMBDA j : chat[j] \in {"assistant", "assistant_calls"})

\* the label of the assistant turn at position j
TurnLabel(j) ==
    IF chat[j] = "assistant_calls" THEN "search" ELSE "agent response"

\* C31: the strategy trail of every step of parse_chat_n holds exactly one
\* label per assistant turn walked up to and including the step's turn: the
\* tool name for a tool-call turn, "agent response" otherwise.
\* (Violated: a tool-call turn adds one label per call of its tool_calls.)
C31_OneLabelPerAssistantTurn ==
    parse_pc = "done" =>
       \A t \in 1..Len(steps) :
          LET turns == AssistantTurnsUpTo(steps[t].position)
          IN  /\ Len(steps[t].strategy) = Len(turns)
              /\ \A k \in 1..Len(turns) :
                    steps[t].strategy[k] = TurnLabel(turns[k])

IsPrefix(a, b) == Len(a) <= Len(b) /\ SubSeq(b, 1, Len(a)) = a

\* C32: across the steps of one transcript, in order, the strategy trail of
\* each step has the trail of the step before it as a prefix, so its number
\* of labels never decreases; a user turn between two steps does not reset it.
C32_TrailGrows ==
    parse_pc = "done" =>
       \A t \in 2..Len(steps) :
          /\ Len(steps[t - 1].strategy) <= Len(steps[t].strategy)
          /\ IsPrefix(steps[t - 1].strategy, steps[t].strategy)

\* two answers with a new user turn between them: the second trail still
\* starts with the first
C32_Witness ==
    /\ parse_pc = "done"
    /\ chat = <<"user", "assistant", "user", "assistant">>
    /\ Len(steps) = 2
    /\ steps[1].strategy = <<"agent response">>
    /\ steps[2].strategy = <<"agent response", "agent response">>

\* C35: every step of parse_chat_n has chat_index equal to the zero-based
\* position of the assistant turn that produced it, so chat_index is strictly
\* increasing across the steps of one transcript.
\* (Violated: the loop that formats the previous responses reuses idx.)
C35_ChatIndexIsPosition ==
    parse_pc = "done" =>
       /\ \A t \in 1..Len(steps) : steps[t].chat_index = steps[t].position - 1
       /\ \A t \in 2..Len(steps) : steps[t - 1].chat_index < steps[t].chat_index


\* C33: in the score of a step whose final strategy label is a tool,
\* response_completeness is null and both tool-correctness dimensions are
\* scored; in the score of a step whose final label is the plain agent
\* response, invoked_tool_correctness and tool_result_correctness are null
\* and response_completeness is scored.
\* (Violated: line 79 compares the label with "response", the parser's label
\* is "agent response".)
C33_InapplicableDimensionsNull ==
    parse_pc = "scored" =>
       \A t \in 1..Len(steps) :
          IF FinalLabel(steps[t]) = "agent response"
          THEN /\ step_scores[t]["invoked_tool_correctness"] = "null"
               /\ step_scores[t]["tool_result_correctness"] = "null"
               /\ step_scores[t]["response_completeness"] = "scored"
          ELSE /\ step_scores[t]["response_completeness"] = "null"
               /\ step_scores[t]["invoked_tool_correctness"] = "scored"
               /\ step_scores[t]["tool_result_correctness"] = "scored"

C36_EveryRowSettles ==
    \A e \in 1..MaxRuns :
       [](Len(evaluations) >= e =>
             <>(/\ Len(evaluations) >= e
                /\ evaluations[e].status \in {"COMPLETED", "FAILED"}))

\* the requests answered so far that started a run for a trace id
RunsStarted(trace_id) ==
    { i \in 1..Len(responses) :
         responses[i].trace_id = trace_id /\ responses[i].run_started }

\* a request is answered
Answered == Len(responses') = Len(responses) + 1

\* C37: at most one Evaluation row exists per trace id and at most one run is
\* ever started per trace id; a request for a trace id that has a row is
\* answered with that row's id and its current status, starts no run and
\* changes neither the rows nor the service, whatever the status is.
C37_OneRowOneRunPerTrace ==
    /\ [](/\ \A a, b \in 1..Len(evaluations) :
               evaluations[a].trace_id = evaluations[b].trace_id => a = b
          /\ \A t \in TraceIds : Cardinality(RunsStarted(t)) <= 1)
    /\ [][ (Answered /\ RowOf(LastEntry(responses').trace_id) # 0) =>
              LET r == LastEntry(responses')
                  e == RowOf(r.trace_id)
              IN  /\ r.evaluation_id = e
                  /\ r.evaluation_status = evaluations[e].status
                  /\ ~ r.run_started
                  /\ UNCHANGED <<evaluations, run_pc, current_evaluation_id,
                                 trace_df, session, db_rows>> ]_vars

\* one trace id asked for three times: the first request started its run, the
\* second was answered IN_PROGRESS during the run, the third after the run
\* had ended, and neither started another run
C37_Witness ==
    /\ Len(responses) = 3
    /\ \A i \in 1..3 : responses[i].trace_id = responses[1].trace_id
    /\ responses[1].run_started
    /\ responses[2] = [responses[1] EXCEPT !.run_started = FALSE]
    /\ responses[3].evaluation_status \in {"COMPLETED", "FAILED"}
    /\ ~ responses[3].run_started
    /\ Len(evaluations) = 1
    /\ run_pc = "idle"


\* C38: whenever no handler is in progress, every Assistant entry of the chat
\* history that holds function calls is immediately followed by a
\* FunctionResult entry.
\* (Violated: a handler left by an exception inside the tool loop has appended
\* the calls and not their results.)
C38_CallsFollowedByResults ==
    pc = "Idle" =>
       \A i \in 1..Len(chat_history) :
          chat_history[i].kind = "calls" =>
             /\ i < Len(chat_history)
             /\ chat_history[i + 1].kind = "results"

\* C39: the communication tools of an agent change only in the step that
\* delivers its first UserTask or AgentTask, and only from the unresolved list
\* to the by-name map of the same tools; so they are resolved at most once,
\* from the first task on an agent that has communication tools is resolved,
\* and an agent constructed with none never resolves.
C39_ResolvedOnceOnFirstTask ==
    /\ [](/\ communication_tools.names = <<>> => ~ communication_tools.resolved
          /\ communication_tools.names # <<>> =>
                (communication_tools.resolved <=> TaskDeliveries # <<>>))
    /\ [][ communication_tools' # communication_tools =>
              /\ ~ communication_tools.resolved
              /\ communication_tools'.resolved
              /\ communication_tools'.names = communication_tools.names
              /\ communication_tools.names # <<>>
              /\ TaskDeliveries = <<>>
              /\ TaskDelivered ]_vars

\* an agent with a communication tool has been sent a UserTask and then an
\* AgentTask: resolved by the first, left alone by the second
C39_Witness ==
    /\ communication_tools = [resolved |-> TRUE, names |-> <<"delegate">>]
    /\ Len(TaskDeliveries) = 2
    /\ TaskDeliveries[1].kind = "UserTask"
    /\ TaskDeliveries[2].kind = "AgentTask"

====
